---- MODULE Spec2Model ----
(***************************************************************************)
(* emcache: the client facade (_Client), the pipeline builder (_Pipeline)  *)
(* and the asyncio event loop that runs their coroutines.                  *)
(*                                                                         *)
(* One caller drives the client: it issues one command (or one pipeline    *)
(* block) at a time, while close() calls may arrive at any moment.  A      *)
(* command is a coroutine of the caller's task; the sub-requests of a      *)
(* fan-out command are child tasks.  The event loop runs the handles of    *)
(* `ready` in FIFO order; handles scheduled with call_soon wait in `sched` *)
(* for the next iteration.                                                 *)
(***************************************************************************)
EXTENDS Integers, Sequences, FiniteSets, TLC

\* ---------------------------------------------------------------- bounds
NumNodes == 2
MaxCloses == 2
MaxStack == 2
MaxExecutes == 2
\* the pool of one node: its bounds, the tasks that use it, the commands
\* they issue and the connections it ever creates
MaxConnections == 2
MinConnections == 1
NumCallers == 2
MaxCommands == 3
MaxCreated == 3
MaxStores == 4
MaxDiscoveries == 2

Nodes == 1..NumNodes

\* ------------------------------------------------------------- constants
MAX_ALLOWED_FLAG_VALUE == 65536

\* Python integers are unbounded and 2**64 does not fit a TLC integer: a cas
\* token is written as five base-65536 digits, most significant first.
MAX_ALLOWED_CAS_VALUE == <<1, 0, 0, 0, 0>>

MAX_KEY_LENGTH == 250

None == <<>>

\* reply tokens (protocol.py), as the bytes the connection hands back
STORED == <<83, 84, 79, 82, 69, 68>>
NOT_STORED == <<78, 79, 84, 95, 83, 84, 79, 82, 69, 68>>
EXISTS == <<69, 88, 73, 83, 84, 83>>
NOT_FOUND == <<78, 79, 84, 95, 70, 79, 85, 78, 68>>
DELETED == <<68, 69, 76, 69, 84, 69, 68>>
TOUCHED == <<84, 79, 85, 67, 72, 69, 68>>
OK == <<79, 75>>
VERSION == <<86, 69, 82, 83, 73, 79, 78>>
\* b"END\r\n"
END == <<69, 78, 68, 13, 10>>
\* b"ERROR", b"CLIENT_ERROR x", b"SERVER_ERROR x", b"13", b"VERSION 1.6",
\* b"STAT a 1\r\nEND\r\n"
ERROR_LINE == <<69, 82, 82, 79, 82>>
CLIENT_ERROR_LINE == <<67, 76, 73, 69, 78, 84, 95, 69, 82, 82, 79, 82, 32, 120>>
SERVER_ERROR_LINE == <<83, 69, 82, 86, 69, 82, 95, 69, 82, 82, 79, 82, 32, 120>>
NUMBER_LINE == <<49, 51>>
VERSION_LINE == <<86, 69, 82, 83, 73, 79, 78, 32, 49, 46, 54>>
STATS_BLOCK == <<83, 84, 65, 84, 32, 97, 32, 49, 13, 10, 69, 78, 68, 13, 10>>

\* error kinds
ClientClosed == "RuntimeError: Emcache client is closed"
InvalidArgument == "ValueError"
UnicodeDecodeError == "UnicodeDecodeError"
TimeoutError == "asyncio.TimeoutError"
CancelledError == "asyncio.CancelledError"
ConnectionFailure == "ConnectionError"
CommandError == "CommandError"
NotFoundCommandError == "NotFoundCommandError"
StorageCommandError == "StorageCommandError"
NotStoredStorageCommandError == "NotStoredStorageCommandError"
Proceed == "proceed"

\* ------------------------------------------------------------ input sets
LongKey(n) == [i \in 1..n |-> 97]

ValidKeys == { <<97>>, LongKey(MAX_KEY_LENGTH) }
InvalidKeys == { <<>>, <<97, 32>>, LongKey(MAX_KEY_LENGTH + 1) }
TestKeys == ValidKeys \cup InvalidKeys

TestKeySeqs == { <<>>, << <<97>> >>, << <<97>>, <<98>> >>, << <<97>>, <<97, 32>> >>,
                 << <<9>> >> }

TestFlags == { MAX_ALLOWED_FLAG_VALUE - 1, MAX_ALLOWED_FLAG_VALUE,
               MAX_ALLOWED_FLAG_VALUE + 1 }

TestCas == { <<0, 65535, 65535, 65535, 65535>>, <<1, 0, 0, 0, 0>>, <<1, 0, 0, 0, 1>> }

TestDeltas == { -1, 0, 3 }

\* ------------------------------------------------------------ arithmetic
RECURSIVE DigitsGT(_, _, _)
DigitsGT(a, b, i) ==
    IF i > Len(a) THEN FALSE
    ELSE IF a[i] # b[i] THEN a[i] > b[i]
    ELSE DigitsGT(a, b, i + 1)

\* a > b on cas tokens
CasGT(a, b) == DigitsGT(a, b, 1)

\* cyemcache.is_key_valid
is_key_valid(key) ==
    /\ Len(key) > 0
    /\ Len(key) <= MAX_KEY_LENGTH
    /\ \A i \in 1..Len(key) : key[i] > 32

\* Cluster.pick_node: a deterministic map from keys to nodes
pick_node(key) ==
    IF Len(key) = 0 THEN 1 ELSE ((key[1] + Len(key)) % NumNodes) + 1

RECURSIVE pick_nodes_from(_, _, _)
pick_nodes_from(keys, i, acc) ==
    IF i > Len(keys) THEN acc
    ELSE LET n == pick_node(keys[i])
         IN pick_nodes_from(keys, i + 1, [acc EXCEPT ![n] = Append(@, keys[i])])

\* a variant that hands every key to every node
pick_nodes_every_node(keys) == [n \in Nodes |-> keys]

\* Cluster.pick_nodes: the keys of each node, in input order
pick_nodes(keys) == pick_nodes_from(keys, 1, [n \in Nodes |-> <<>>])


\* ---------------------------------------------------------------- values
Some(x) == <<x>>

Item(value, flags, cas) == [value |-> value, flags |-> flags, cas |-> cas]

Return(v) == [kind |-> "return", err |-> "", val |-> v]
Raise(e) == [kind |-> "raise", err |-> e, val |-> None]
NoOutcome == [kind |-> "none", err |-> "", val |-> None]

Put(f, k, v) == [x \in (DOMAIN f) \cup {k} |-> IF x = k THEN v ELSE f[x]]

\* what the node stores for a key: the value, its flags and its cas token
ValueOf(key) == <<118, Len(key)>>
FlagsOf(key) == Len(key) + 1
CasOf(key) == Len(key) + 100

\* the tuple a connection returns for a retrieval: the keys found, in order
FetchResult(keys, client_error) ==
    [keys |-> keys,
     values |-> [i \in 1..Len(keys) |-> ValueOf(keys[i])],
     flags |-> [i \in 1..Len(keys) |-> FlagsOf(keys[i])],
     cas |-> [i \in 1..Len(keys) |-> CasOf(keys[i])],
     client_error |-> client_error]

RECURSIVE SubSeqs(_)
SubSeqs(keys) ==
    IF Len(keys) = 0 THEN { <<>> }
    ELSE LET rest == SubSeqs(Tail(keys))
         IN rest \cup { <<Head(keys)>> \o r : r \in rest }

\* the replies a node can give to a retrieval of `keys`
FetchReplies(keys) ==
    { FetchResult(found, None) : found \in SubSeqs(keys) }
        \cup { FetchResult(<<>>, CLIENT_ERROR_LINE) }

\* the lines a node can give to any other command
LineReplies ==
    { STORED, NOT_STORED, EXISTS, NOT_FOUND, DELETED, TOUCHED, OK, ERROR_LINE,
      CLIENT_ERROR_LINE, SERVER_ERROR_LINE, NUMBER_LINE, VERSION_LINE, STATS_BLOCK,
      <<>> }

\* ------------------------------------------- _Client: argument validation
\* Each operator is the part of the method that runs before a node is
\* picked: the error it raises, or Proceed.

Client_storage_command(isClosed, key, flags, cas) ==
    IF isClosed THEN ClientClosed
    ELSE IF cas # None /\ CasGT(cas, MAX_ALLOWED_CAS_VALUE) THEN InvalidArgument
    ELSE IF flags > MAX_ALLOWED_FLAG_VALUE THEN InvalidArgument
    ELSE IF ~is_key_valid(key) THEN InvalidArgument
    ELSE Proceed

\* a variant without the test of the delta
Client_incr_decr_command_any_delta(isClosed, key, value) ==
    IF isClosed THEN ClientClosed
    ELSE IF ~is_key_valid(key) THEN InvalidArgument
    ELSE Proceed

Client_incr_decr_command(isClosed, key, value) ==
    IF isClosed THEN ClientClosed
    ELSE IF value < 0 THEN InvalidArgument
    ELSE IF ~is_key_valid(key) THEN InvalidArgument
    ELSE Proceed

Client_fetch_command(isClosed, key) ==
    IF isClosed THEN ClientClosed
    ELSE IF ~is_key_valid(key) THEN InvalidArgument
    ELSE Proceed

ReturnEmpty == "return {}"

\* a variant that answers an empty key sequence before it looks at `closed`
Client_fetch_many_command_empty_first(isClosed, keys) ==
    IF Len(keys) = 0 THEN ReturnEmpty
    ELSE IF isClosed THEN ClientClosed
    ELSE IF \E i \in 1..Len(keys) : ~is_key_valid(keys[i]) THEN InvalidArgument
    ELSE Proceed

Client_fetch_many_command(isClosed, keys) ==
    IF isClosed THEN ClientClosed
    ELSE IF Len(keys) = 0 THEN ReturnEmpty
    ELSE IF \E i \in 1..Len(keys) : ~is_key_valid(keys[i]) THEN InvalidArgument
    ELSE Proceed

Client_get_and_touch_command(isClosed, key) ==
    IF isClosed THEN ClientClosed
    ELSE IF ~is_key_valid(key) THEN InvalidArgument
    ELSE Proceed

\* a variant without the early return for an empty key sequence
Client_get_and_touch_many_command_no_early_return(isClosed, keys) ==
    IF isClosed THEN ClientClosed
    ELSE IF \E i \in 1..Len(keys) : ~is_key_valid(keys[i]) THEN InvalidArgument
    ELSE Proceed

Client_get_and_touch_many_command(isClosed, keys) ==
    IF isClosed THEN ClientClosed
    ELSE IF Len(keys) = 0 THEN ReturnEmpty
    ELSE IF \E i \in 1..Len(keys) : ~is_key_valid(keys[i]) THEN InvalidArgument
    ELSE Proceed

Client_touch_check(isClosed, key) ==
    IF isClosed THEN ClientClosed
    ELSE IF ~is_key_valid(key) THEN InvalidArgument
    ELSE Proceed

Client_delete_check(isClosed, key) ==
    IF isClosed THEN ClientClosed
    ELSE IF ~is_key_valid(key) THEN InvalidArgument
    ELSE Proceed

\* flush_all, version, stats, cache_memlimit, verbosity
Client_node_command_check(isClosed) ==
    IF isClosed THEN ClientClosed ELSE Proceed

\* AutoBatching.execute, entered by get and gets when autobatching is on
AutoBatching_execute_check(isClosed, key) ==
    IF isClosed THEN ClientClosed
    ELSE IF ~is_key_valid(key) THEN InvalidArgument
    ELSE Proceed


\* ------------------------------------------------------- bytes utilities
startswith(b, prefix) ==
    Len(b) >= Len(prefix) /\ SubSeq(b, 1, Len(prefix)) = prefix

endswith(b, suffix) ==
    Len(b) >= Len(suffix) /\ SubSeq(b, Len(b) - Len(suffix) + 1, Len(b)) = suffix

removeprefix(b, prefix) ==
    IF startswith(b, prefix) THEN SubSeq(b, Len(prefix) + 1, Len(b)) ELSE b

IsDecimal(b) == Len(b) > 0 /\ \A i \in 1..Len(b) : b[i] \in 48..57

RECURSIVE DecimalValue(_, _, _)
DecimalValue(b, i, acc) ==
    IF i > Len(b) THEN acc ELSE DecimalValue(b, i + 1, acc * 10 + (b[i] - 48))

\* int(result): the value of a decimal line, ValueError for anything else
int(b) == IF IsDecimal(b) THEN Return(DecimalValue(b, 1, 0)) ELSE Raise(InvalidArgument)

\* index of the first CR LF at or after i, 0 when there is none
RECURSIVE FindCRLF(_, _)
FindCRLF(b, i) ==
    IF i + 1 > Len(b) THEN 0
    ELSE IF b[i] = 13 /\ b[i + 1] = 10 THEN i
    ELSE FindCRLF(b, i + 1)

\* index of the last space of a line, 0 when there is none
RECURSIVE LastSpace(_, _)
LastSpace(line, i) ==
    IF i < 1 THEN 0 ELSE IF line[i] = 32 THEN i ELSE LastSpace(line, i - 1)

STAT_PREFIX == <<83, 84, 65, 84, 32>>

\* result.decode(): bytes to str, strict UTF-8.  The payloads of the model
\* hold ASCII bytes, which decode to themselves, and 0xFF, which no UTF-8
\* text contains
Decodable(b) == \A i \in 1..Len(b) : b[i] < 128
decode(b) == [str |-> b]

\* dict(re.finditer(r"STAT (.+) (.+)\r\n")): name -> value of each STAT line
RECURSIVE stats_dict(_, _, _)
stats_dict(b, i, acc) ==
    LET e == FindCRLF(b, i)
    IN IF e = 0 THEN acc
       ELSE LET line == SubSeq(b, i, e - 1)
                body == removeprefix(line, STAT_PREFIX)
                sp == LastSpace(body, Len(body))
            IN IF startswith(line, STAT_PREFIX) /\ sp > 1 /\ sp < Len(body)
               THEN stats_dict(b, e + 2,
                               Put(acc, SubSeq(body, 1, sp - 1),
                                   SubSeq(body, sp + 1, Len(body))))
               ELSE stats_dict(b, e + 2, acc)

\* ---------------------------------------- _Client: the outcome of a reply
\* Each operator is the part of the method that runs after the connection
\* has handed back `result`.

Client_set_outcome(noreply, result) ==
    IF ~noreply /\ result # STORED THEN Raise(StorageCommandError)
    ELSE Return(None)

\* a variant of add that tests NOT_STORED whether or not noreply was asked
Client_add_outcome_unguarded(noreply, result) ==
    IF result = NOT_STORED THEN Raise(NotStoredStorageCommandError)
    ELSE IF ~noreply /\ result # STORED THEN Raise(StorageCommandError)
    ELSE Return(None)

Client_add_outcome(noreply, result) ==
    IF ~noreply /\ result = NOT_STORED THEN Raise(NotStoredStorageCommandError)
    ELSE IF ~noreply /\ result # STORED THEN Raise(StorageCommandError)
    ELSE Return(None)

Client_replace_outcome(noreply, result) ==
    IF ~noreply /\ result = NOT_STORED THEN Raise(NotStoredStorageCommandError)
    ELSE IF ~noreply /\ result # STORED THEN Raise(StorageCommandError)
    ELSE Return(None)

Client_append_outcome(noreply, result) ==
    IF ~noreply /\ result = NOT_STORED THEN Raise(NotStoredStorageCommandError)
    ELSE IF ~noreply /\ result # STORED THEN Raise(StorageCommandError)
    ELSE Return(None)

Client_prepend_outcome(noreply, result) ==
    IF ~noreply /\ result = NOT_STORED THEN Raise(NotStoredStorageCommandError)
    ELSE IF ~noreply /\ result # STORED THEN Raise(StorageCommandError)
    ELSE Return(None)

\* a variant of cas that reads its reply the way add does
Client_cas_outcome_as_add(noreply, result) ==
    IF ~noreply /\ result = NOT_STORED THEN Raise(NotStoredStorageCommandError)
    ELSE IF ~noreply /\ result # STORED THEN Raise(StorageCommandError)
    ELSE Return(None)

Client_cas_outcome(noreply, result) ==
    IF ~noreply /\ result = EXISTS THEN Raise(NotStoredStorageCommandError)
    ELSE IF ~noreply /\ result # STORED THEN Raise(StorageCommandError)
    ELSE Return(None)

\* a variant of increment that converts the reply without testing NOT_FOUND
Client_increment_outcome_unchecked(noreply, result) ==
    IF noreply THEN Return(None)
    ELSE int(result)

Client_increment_outcome(noreply, result) ==
    IF noreply THEN Return(None)
    ELSE IF result = NOT_FOUND THEN Raise(NotFoundCommandError)
    ELSE int(result)

Client_decrement_outcome(noreply, result) ==
    IF noreply THEN Return(None)
    ELSE IF result = NOT_FOUND THEN Raise(NotFoundCommandError)
    ELSE int(result)

Client_touch_outcome(noreply, result) ==
    IF noreply THEN Return(None)
    ELSE IF result = NOT_FOUND THEN Raise(NotFoundCommandError)
    ELSE IF result # TOUCHED THEN Raise(CommandError)
    ELSE Return(None)

\* a variant of delete that accepts every reply other than NOT_FOUND
Client_delete_outcome_lenient(noreply, result) ==
    IF noreply THEN Return(None)
    ELSE IF result = NOT_FOUND THEN Raise(NotFoundCommandError)
    ELSE Return(None)

Client_delete_outcome(noreply, result) ==
    IF noreply THEN Return(None)
    ELSE IF result = NOT_FOUND THEN Raise(NotFoundCommandError)
    ELSE IF result # DELETED THEN Raise(CommandError)
    ELSE Return(None)

Client_flush_all_outcome(noreply, result) ==
    IF noreply THEN Return(None)
    ELSE IF result # OK THEN Raise(CommandError)
    ELSE Return(None)

Client_cache_memlimit_outcome(noreply, result) ==
    IF noreply THEN Return(None)
    ELSE IF result # OK THEN Raise(CommandError)
    ELSE Return(None)

Client_verbosity_outcome(noreply, result) ==
    IF noreply THEN Return(None)
    ELSE IF result # OK THEN Raise(CommandError)
    ELSE Return(None)

Client_version_outcome(result) ==
    IF Len(result) = 0 \/ ~startswith(result, VERSION) THEN Raise(CommandError)
    ELSE IF ~Decodable(result) THEN Raise(UnicodeDecodeError)
    ELSE Return(decode(removeprefix(result, VERSION \o <<32>>)))

\* the dict of a decoded block: str names and str values
str_dict(d) == [k \in { decode(b) : b \in DOMAIN d } |-> decode(d[k.str])]

\* a variant that does not look at the end of the reply
Client_stats_outcome_unchecked(result) ==
    Return(str_dict(stats_dict(result, 1, <<>>)))

Client_stats_outcome(result) ==
    IF Len(result) = 0 \/ ~endswith(result, END) THEN Raise(CommandError)
    ELSE IF ~Decodable(result) THEN Raise(UnicodeDecodeError)
    ELSE Return(str_dict(stats_dict(result, 1, <<>>)))

\* a variant of the single-key result handling that always fills in the flags
Client_single_item_with_flags(key, return_flags, return_cas, r) ==
    IF r.client_error # None THEN Raise(CommandError)
    ELSE IF \A i \in 1..Len(r.keys) : r.keys[i] # key THEN Return(None)
    ELSE Return(Item(r.values[1], Some(r.flags[1]),
                     IF return_cas THEN Some(r.cas[1]) ELSE None))

\* get, gets, gat, gats: `r` is the tuple of the connection
Client_single_item(key, return_flags, return_cas, r) ==
    IF r.client_error # None THEN Raise(CommandError)
    ELSE IF \A i \in 1..Len(r.keys) : r.keys[i] # key THEN Return(None)
    ELSE Return(Item(r.values[1],
                     IF return_flags THEN Some(r.flags[1]) ELSE None,
                     IF return_cas THEN Some(r.cas[1]) ELSE None))

\* a variant whose loop stops one key short of the node's result
put_items_one_short(r, idx, results, return_flags, return_cas) ==
    LET kept == { i \in 1..Len(r.keys) : i < Len(r.keys) }
        at(k) == CHOOSE i \in kept : r.keys[i] = k /\ \A j \in kept : r.keys[j] = k => j <= i
    IN [k \in (DOMAIN results) \cup { r.keys[i] : i \in kept } |->
           IF \E i \in kept : r.keys[i] = k
           THEN Item(r.values[at(k)],
                     IF return_flags THEN Some(r.flags[at(k)]) ELSE None,
                     IF return_cas THEN Some(r.cas[at(k)]) ELSE None)
           ELSE results[k]]

RECURSIVE put_items(_, _, _, _, _)
put_items(r, idx, results, return_flags, return_cas) ==
    IF idx > Len(r.keys) THEN results
    ELSE put_items(r, idx + 1,
                   Put(results, r.keys[idx],
                       Item(r.values[idx],
                            IF return_flags THEN Some(r.flags[idx]) ELSE None,
                            IF return_cas THEN Some(r.cas[idx]) ELSE None)),
                   return_flags, return_cas)

\* a variant that skips the result of a node that reported a client error
RECURSIVE Client_many_items_skip_errors(_, _, _, _, _)
Client_many_items_skip_errors(nodes_results, i, results, return_flags, return_cas) ==
    IF i > Len(nodes_results) THEN Return(results)
    ELSE IF nodes_results[i].client_error # None
    THEN Client_many_items_skip_errors(nodes_results, i + 1, results, return_flags,
                                       return_cas)
    ELSE Client_many_items_skip_errors(nodes_results, i + 1,
                                       put_items(nodes_results[i], 1, results,
                                                 return_flags, return_cas),
                                       return_flags, return_cas)

\* the loop over nodes_results of get_many, gets_many, gat_many, gats_many
RECURSIVE Client_many_items(_, _, _, _, _)
Client_many_items(nodes_results, i, results, return_flags, return_cas) ==
    IF i > Len(nodes_results) THEN Return(results)
    ELSE IF nodes_results[i].client_error # None THEN Raise(CommandError)
    ELSE Client_many_items(nodes_results, i + 1,
                           put_items(nodes_results[i], 1, results, return_flags, return_cas),
                           return_flags, return_cas)



\* ------------------------------------------------------------------ state
VARIABLES
    autobatching,       \* _Client._autobatching
    timeout,            \* _Client._timeout is not None
    closed,             \* _Client._closed
    closeCalls,         \* close() calls made so far
    clusterCloseCalls,  \* Cluster.close() calls made so far
    cascade,            \* Cluster.close(): "none", "running", "done"
    cur,                \* the arguments of the caller's current command
    outcome,            \* what the command handed to the caller
    reply,              \* what its connections handed back to the command
    wire,               \* the requests the command wrote to connections
    leases,             \* the nodes whose connection the command holds
    acquired,           \* the nodes whose connection the command ever leased
    parent,             \* the caller's task, suspended in the command
    tasks,              \* the child task of each node (fan-out, batch)
    gather,             \* the future of asyncio.gather
    ready,              \* handles the loop runs in this iteration
    sched,              \* handles scheduled for the next iteration
    timer,              \* OpTimeout._timer_handler
    timedOut,           \* OpTimeout._timed_out
    pipe,               \* _Pipeline.memcached_host_address, 0 outside a pipeline block
    stack,              \* _Pipeline.stack
    block,              \* the pipeline block: "none", "open", the error that leaves it, "exited"
    attempts,           \* the execute() calls of the block: the stack at the call and how
                        \* the call before it ended
    connections,        \* ConnectionPool.connections: the connections of the pool
    in_use,             \* ConnectionPool.in_use: the connections leased
    creating,           \* ConnectionPool.creating: background creations running
    poolClosed,         \* the pool has been closed
    created,            \* connections created so far (the next one is created + 1)
    connState,          \* Connection.state of each connection: "none", "Open", "Closed"
    reqs,               \* per connection: requests written, not yet processed by the node
    stream,             \* per connection: responses sent by the node, not yet read
    store,              \* the node: the mutations of the key it has applied
    issued,             \* commands written so far (the next one is issued + 1)
    callers,            \* the tasks that run `async with node.connection()`
    kvItem,             \* the node: what it stores for the key, None or Some([value, cas])
    kvNext,             \* the node: the cas token of its next store
    kvToken,            \* the cas token of the Item the caller's last gets returned
    kvUsed,             \* that token has been accepted by a cas
    kvLast,             \* the caller's last command on the key and what it returned
    crArgs,             \* create_client: the arguments of the call
    crPc,               \* create_client: "idle", "waiting" (in wait_for), "done"
    crOutcome,          \* create_client: what the call handed to the caller
    crStep,             \* create_client: the statement that ended the call
    crBuilt,            \* create_client: what has been constructed: "client", "cluster"
    crFuture,           \* Cluster._first_autodiscovery_done: "none", "pending", "done", "cancelled"
    crAttempts,         \* discoveries the cluster has run
    crClosed,           \* create_client called close() on the client it built
    abWaiters,          \* AutoBatching: the Waiters of the execute calls, in call order
    abBatches,          \* AutoBatching: the PendingBatches of the node, in creation order
    abTurn,             \* the scheduler turn that is running
    hPc,                \* Cluster: "new" before it is constructed, then "running"
    hPurge,             \* Cluster: purge_unhealthy_nodes
    hNodes,             \* per node: open connections, health mark, latest creation failed
    hRing,              \* Cluster: the nodes of the ring
    hEvents,            \* the ClusterEvents calls made so far, in order
    hPicked             \* the latest pick_node: the key, the node, its health mark then

cfgVars == <<autobatching, timeout>>
closeVars == <<closed, closeCalls, clusterCloseCalls, cascade>>
loopVars == <<parent, tasks, gather, ready, sched, timer, timedOut>>
callVars == <<cur, outcome, reply, wire, leases, acquired>>
pipeVars == <<pipe, stack, block, attempts>>
poolVars == <<connections, in_use, creating, poolClosed, created, connState, reqs, stream,
              store, issued, callers>>
clientVars == <<autobatching, timeout, closed, closeCalls, clusterCloseCalls, cascade, cur,
                outcome, reply, wire, leases, acquired, parent, tasks, gather, ready, sched,
                timer, timedOut, pipe, stack, block, attempts>>
kvVars == <<kvItem, kvNext, kvToken, kvUsed, kvLast>>
createVars == <<crArgs, crPc, crOutcome, crStep, crBuilt, crFuture, crAttempts, crClosed>>
batchVars == <<abWaiters, abBatches, abTurn>>
healthVars == <<hPc, hPurge, hNodes, hRing, hEvents, hPicked>>
extraVars == <<batchVars, healthVars>>
sideVars == <<kvVars, createVars, extraVars>>
vars == <<clientVars, poolVars, sideVars>>

SingleOps == {"get", "gets", "gat", "gats"}
ManyOps == {"get_many", "gets_many", "gat_many", "gats_many"}
StorageOps == {"set", "add", "replace", "append", "prepend", "cas"}
NodeOps == {"flush_all", "version", "stats", "cache_memlimit", "verbosity"}

Args(op, keys, flags, cas, noreply, delta, return_flags, node) ==
    [op |-> op, keys |-> keys, flags |-> flags, cas |-> cas, noreply |-> noreply,
     delta |-> delta, return_flags |-> return_flags, node |-> node,
     closedAtCall |-> closed, batched |-> autobatching /\ op \in {"get", "gets"}]

NoArgs ==
    [op |-> "none", keys |-> <<>>, flags |-> 0, cas |-> None, noreply |-> FALSE,
     delta |-> 0, return_flags |-> FALSE, node |-> 1, closedAtCall |-> FALSE,
     batched |-> FALSE]

Done == {"ok", "exc", "cancelled"}

NoTask ==
    [st |-> "none", fut |-> "none", val |-> None, exc |-> "", mustCancel |-> FALSE,
     cancelReq |-> FALSE, keys |-> <<>>]

NoParent ==
    [pc |-> "idle", fut |-> "none", val |-> None, exc |-> "", mustCancel |-> FALSE]

NoGather ==
    [st |-> "none", exc |-> "", cancelReq |-> FALSE, nfinished |-> 0, nfuts |-> 0]

Wake(t) == [h |-> "wake", t |-> t]
DoneCallback(t) == [h |-> "done_callback", t |-> t]
TimerHandle == [h |-> "timer", t |-> 0]

\* the connections a pool can ever create, and the tasks that use it
ConnIds == 1..MaxCreated
Callers == 1..NumCallers

NoResult ==
    [kind |-> "none", cmd |-> 0, got |-> 0, conn |-> 0, afterNoreply |-> FALSE,
     sameConn |-> FALSE, sole |-> FALSE, observed |-> FALSE]

\* a task outside `async with node.connection()`.  follows and followsConn
\* are the noreply mutation that was its last command, if it was one, and
\* the connection that carried it.
NoCaller ==
    [pc |-> "idle", kind |-> "none", noreply |-> FALSE, conn |-> 0, cmd |-> 0,
     follows |-> 0, followsConn |-> 0, sole |-> FALSE, result |-> NoResult]

\* a pool before its first connection, and a node that stores nothing
PoolInit ==
    /\ connections = {}
    /\ in_use = {}
    /\ creating = 0
    /\ poolClosed = FALSE
    /\ created = 0
    /\ connState = [c \in ConnIds |-> "none"]
    /\ reqs = [c \in ConnIds |-> <<>>]
    /\ stream = [c \in ConnIds |-> <<>>]
    /\ store = {}
    /\ issued = 0
    /\ callers = [k \in Callers |-> NoCaller]

\* no command on the key yet, and a node that does not hold it
NoCommand == [op |-> "none", value |-> None, token |-> None, reused |-> FALSE,
              delta |-> 0, before |-> None, after |-> None, outcome |-> NoOutcome]
KvInit ==
    /\ kvItem = None
    /\ kvNext = 1
    /\ kvToken = None
    /\ kvUsed = FALSE
    /\ kvLast = NoCommand

\* create_client has not been called
NoCreateArgs == [ssl |-> FALSE, ssl_module |-> TRUE, username |-> None, password |-> None,
                 node_addresses |-> 0, autodiscovery |-> FALSE]
CreateInit ==
    /\ crArgs = NoCreateArgs
    /\ crPc = "idle"
    /\ crOutcome = NoOutcome
    /\ crStep = "none"
    /\ crBuilt = {}
    /\ crFuture = "none"
    /\ crAttempts = 0
    /\ crClosed = FALSE

\* no get has entered the autobatcher
BatchInit ==
    /\ abWaiters = <<>>
    /\ abBatches = <<>>
    /\ abTurn = 1

\* the cluster has not been constructed
NoPick == [key |-> <<>>, node |-> 0, healthy |-> FALSE]
HealthInit ==
    /\ hPc = "new"
    /\ hPurge = FALSE
    /\ hNodes = [n \in Nodes |-> [conns |-> 0, healthy |-> TRUE, failed |-> FALSE]]
    /\ hRing = Nodes
    /\ hEvents = <<>>
    /\ hPicked = NoPick

SideInit == KvInit /\ CreateInit /\ BatchInit /\ HealthInit

Init ==
    /\ autobatching \in BOOLEAN
    /\ timeout \in BOOLEAN
    /\ closed = FALSE
    /\ closeCalls = 0
    /\ clusterCloseCalls = 0
    /\ cascade = "none"
    /\ cur = NoArgs
    /\ outcome = NoOutcome
    /\ reply = None
    /\ wire = <<>>
    /\ leases = {}
    /\ acquired = {}
    /\ parent = NoParent
    /\ tasks = [n \in Nodes |-> NoTask]
    /\ gather = NoGather
    /\ ready = <<>>
    /\ sched = <<>>
    /\ timer = "off"
    /\ timedOut = FALSE
    /\ pipe = 0
    /\ stack = <<>>
    /\ block = "none"
    /\ attempts = <<>>
    /\ PoolInit
    /\ SideInit

\* -------------------------------------------------------- the event loop
RECURSIVE SeqOfNodes(_, _)
\* the nodes of S in ascending order, from n on
SeqOfNodes(S, n) ==
    IF n > NumNodes THEN <<>>
    ELSE (IF n \in S THEN <<n>> ELSE <<>>) \o SeqOfNodes(S, n + 1)

WakesOf(S) == [i \in 1..Cardinality(S) |-> Wake(SeqOfNodes(S, 1)[i])]

Remove(q, h) == SelectSeq(q, LAMBDA x : x # h)

\* Task.cancel() on a child task: the task after the request
Task_cancel(t) ==
    IF t.st \in Done \/ t.st = "none" THEN t
    ELSE IF t.fut = "pending" THEN [t EXCEPT !.fut = "cancelled", !.cancelReq = TRUE]
    ELSE [t EXCEPT !.mustCancel = TRUE, !.cancelReq = TRUE]

\* a variant of the handler that raises without cancelling the tasks
Cancel_not_done_skipped(ts) == ts

\* except Exception: for task in tasks: if not task.done(): task.cancel()
Cancel_not_done(ts) == [n \in Nodes |-> Task_cancel(ts[n])]

\* the children whose wake-up Task.cancel() schedules
CancelWakes == { n \in Nodes : tasks[n].st \notin Done \cup {"none"} /\ tasks[n].fut = "pending" }

\* the children on which Task.cancel() returns True
Cancellable == { n \in Nodes : tasks[n].st \notin Done \cup {"none"} }

\* the request a command writes once it holds a connection
Request(node, a, keys) ==
    [node |-> node, cmd |-> a.op, keys |-> keys, flags |-> a.flags, cas |-> a.cas,
     noreply |-> a.noreply, commands |-> IF a.op = "execute" THEN stack ELSE <<>>]

\* ------------------------------------------------ _Pipeline: the builders
\* A serialised command of the stack, by the fields its bytes carry
Command(cmd, keys, flags, cas, noreply, delta) ==
    [cmd |-> cmd, keys |-> keys, flags |-> flags, cas |-> cas, noreply |-> noreply,
     delta |-> delta]

\* inputs of the builder methods
PipeKeys == { <<97>>, <<97, 32>> }
PipeKeySeqs == { << <<97>> >>, << <<97>>, <<97, 32>> >> }
PipeFlags == { MAX_ALLOWED_FLAG_VALUE, MAX_ALLOWED_FLAG_VALUE + 1 }
PipeCas == { <<1, 0, 0, 0, 0>>, <<1, 0, 0, 0, 1>> }
PipeDeltas == { -1, 3 }
TestAddresses == { 1 }

Pipeline_retrieval_command(keys) ==
    IF \E i \in 1..Len(keys) : ~is_key_valid(keys[i]) THEN InvalidArgument
    ELSE Proceed

Pipeline_storage_command(key, flags, cas) ==
    IF cas # None /\ CasGT(cas, MAX_ALLOWED_CAS_VALUE) THEN InvalidArgument
    ELSE IF flags > MAX_ALLOWED_FLAG_VALUE THEN InvalidArgument
    ELSE IF ~is_key_valid(key) THEN InvalidArgument
    ELSE Proceed

Pipeline_incr_decr_command(key, value) ==
    IF value < 0 THEN InvalidArgument
    ELSE IF ~is_key_valid(key) THEN InvalidArgument
    ELSE Proceed

Pipeline_get_and_touch_command(keys) ==
    IF \E i \in 1..Len(keys) : ~is_key_valid(keys[i]) THEN InvalidArgument
    ELSE Proceed

\* -------------------------------------------------- _Pipeline: the reply
\* One match of regex_memcached_responses over the consolidated reply: the
\* group that matched and the text of its sub-groups
Match(group, text, data, flags, cas) ==
    [group |-> group, text |-> text, data |-> data, flags |-> flags, cas |-> cas]

Line(group) == Match(group, <<>>, <<>>, <<>>, None)

\* a stored value that is no text: 0xFF starts no UTF-8 sequence
BinaryValue == <<255>>

\* the VALUE record of a key: the cas token is sent for gets and gats only
ValueMatch(cmd, key, value) ==
    Match("value", <<>>, value, <<48 + FlagsOf(key)>>,
          IF cmd \in {"gets", "gats"} THEN Some(<<49, 48, 48 + Len(key)>>) ELSE None)

\* the records a node sends back for one command of a pipeline.  A command
\* sent with noreply is not answered; a retrieval is answered by one VALUE
\* record per key found, or by END alone when no key is found.
ServerReplies(c) ==
    IF c.noreply THEN { <<>> }
    ELSE IF c.cmd \in {"get", "gets", "gat", "gats"}
    THEN { IF Len(found) = 0 THEN <<Line("end")>>
           ELSE [i \in 1..Len(found) |->
                    ValueMatch(c.cmd, found[i],
                               IF binary /\ i = 1 THEN BinaryValue ELSE ValueOf(found[i]))] :
           found \in SubSeqs(c.keys), binary \in BOOLEAN }
    ELSE IF c.cmd \in {"touch", "delete"} /\ ~is_key_valid(c.keys[1])
    THEN { <<Line("error")>> }
    ELSE { << CASE c.cmd \in {"set", "replace", "prepend"} -> Line("stored")
                [] c.cmd \in {"add", "append"} -> Line("not_stored")
                [] c.cmd = "cas" -> Line("exists")
                [] c.cmd = "incr" -> Match("incr_decr_value", NUMBER_LINE, <<>>, <<>>, None)
                [] c.cmd = "decr" -> Line("not_found")
                [] c.cmd = "touch" -> Line("touched")
                [] c.cmd = "delete" -> Line("deleted")
                [] c.cmd = "version" -> Match("version", VERSION_LINE, <<>>, <<>>, None)
                [] c.cmd = "stats" -> Match("stats", STATS_BLOCK, <<>>, <<>>, None)
                [] OTHER -> Line("ok") >> }

\* the consolidated replies to the commands of a stack, in push order
RECURSIVE PipelineReplies(_)
PipelineReplies(commands) ==
    IF Len(commands) = 0 THEN { <<>> }
    ELSE { first \o rest : first \in ServerReplies(Head(commands)),
                           rest \in PipelineReplies(Tail(commands)) }

\* a record of the list execute() returns
Response(type, text, item, num, dict) ==
    [type |-> type, text |-> text, item |-> item, num |-> num, dict |-> dict]

Text(b) == Response("str", b, None, 0, <<>>)

\* the if/elif chain of execute(): the record a match adds to the list
Pipeline_response(m) ==
    CASE m.group = "error_message" -> Text(m.text)
      [] m.group = "client_error" -> Text(m.text)
      [] m.group = "error" -> Text(ERROR_LINE)
      [] m.group = "stored" -> Text(STORED)
      [] m.group = "not_stored" -> Text(NOT_STORED)
      [] m.group = "exists" -> Text(EXISTS)
      [] m.group = "not_found" -> Text(NOT_FOUND)
      [] m.group = "end" -> Text(<<69, 78, 68>>)
      [] m.group = "value" ->
             Response("item", <<>>,
                      Some(Item(decode(m.data), Some(DecimalValue(m.flags, 1, 0)),
                                IF m.cas # None THEN Some(DecimalValue(m.cas[1], 1, 0))
                                ELSE None)),
                      0, <<>>)
      [] m.group = "deleted" -> Text(DELETED)
      [] m.group = "touched" -> Text(TOUCHED)
      [] m.group = "version" -> Text(removeprefix(m.text, VERSION \o <<32>>))
      [] m.group = "ok" -> Text(OK)
      [] m.group = "stats" -> Response("dict", <<>>, None, 0, stats_dict(m.text, 1, <<>>))
      [] m.group = "incr_decr_value" -> Response("int", <<>>, None, DecimalValue(m.text, 1, 0), <<>>)

\* execute(), after the connection has handed back the reply
Pipeline_execute_outcome(result) ==
    IF \E i \in 1..Len(result) : ~Decodable(result[i].data)
    THEN Raise(UnicodeDecodeError)
    ELSE Return([i \in 1..Len(result) |-> Pipeline_response(result[i])])

\* ------------------------------------------------- starting a command
\* the outcome of a command that used one connection, from its reply
Outcome(a, result) ==
    CASE a.op = "set" -> Client_set_outcome(a.noreply, result)
      [] a.op = "add" -> Client_add_outcome(a.noreply, result)
      [] a.op = "replace" -> Client_replace_outcome(a.noreply, result)
      [] a.op = "append" -> Client_append_outcome(a.noreply, result)
      [] a.op = "prepend" -> Client_prepend_outcome(a.noreply, result)
      [] a.op = "cas" -> Client_cas_outcome(a.noreply, result)
      [] a.op = "increment" -> Client_increment_outcome(a.noreply, result)
      [] a.op = "decrement" -> Client_decrement_outcome(a.noreply, result)
      [] a.op = "touch" -> Client_touch_outcome(a.noreply, result)
      [] a.op = "delete" -> Client_delete_outcome(a.noreply, result)
      [] a.op = "flush_all" -> Client_flush_all_outcome(a.noreply, result)
      [] a.op = "cache_memlimit" -> Client_cache_memlimit_outcome(a.noreply, result)
      [] a.op = "verbosity" -> Client_verbosity_outcome(a.noreply, result)
      [] a.op = "version" -> Client_version_outcome(result)
      [] a.op = "stats" -> Client_stats_outcome(result)
      [] a.op \in {"get", "gat"} ->
             Client_single_item(a.keys[1], a.return_flags, FALSE, result)
      [] a.op \in {"gets", "gats"} ->
             Client_single_item(a.keys[1], a.return_flags, TRUE, result)
      [] a.op = "execute" -> Pipeline_execute_outcome(result)

\* the outcome of a fan-out command, from the results of its tasks
ManyOutcome(a, nodes_results) ==
    Client_many_items(nodes_results, 1, <<>>, a.return_flags,
                      a.op \in {"gets_many", "gats_many"})

SetCall(a, out, w, ls, acq, p, ts, g, sc, tm) ==
    /\ cur' = a
    /\ outcome' = out
    /\ reply' = None
    /\ wire' = w
    /\ leases' = ls
    /\ acquired' = acq
    /\ parent' = p
    /\ tasks' = ts
    /\ gather' = g
    /\ ready' = <<>>
    /\ sched' = sc
    /\ timer' = tm
    /\ timedOut' = FALSE

NoTasks == [n \in Nodes |-> NoTask]
DoneParent == [NoParent EXCEPT !.pc = "done"]
Awaiting(pc) == [NoParent EXCEPT !.pc = pc, !.fut = "pending"]
Armed == IF timeout THEN "armed" ELSE "off"
Disarmed == IF timeout THEN "cancelled" ELSE "off"

\* the command ends before any await: it raised, or returned `out`
EndsAtOnce(a, out) ==
    SetCall(a, out, <<>>, {}, {}, DoneParent, NoTasks, NoGather, <<>>, "off")

\* async with OpTimeout: async with node.connection(): await connection.<command>
\* An idle connection is leased at once, else the task waits for one.  A
\* noreply command returns as soon as its bytes are written.
OnConnection(a, node) ==
    \E idle \in BOOLEAN :
        IF ~idle
        THEN SetCall(a, NoOutcome, <<>>, {}, {}, Awaiting("acquire"), NoTasks, NoGather,
                     <<>>, Armed)
        ELSE IF a.noreply
        THEN SetCall(a, Outcome(a, None), <<Request(node, a, a.keys)>>, {}, {node},
                     DoneParent, NoTasks, NoGather, <<>>, Disarmed)
        ELSE SetCall(a, NoOutcome, <<Request(node, a, a.keys)>>, {node}, {node},
                     Awaiting("inflight"), NoTasks, NoGather, <<>>, Armed)

StartTask(keys) == [NoTask EXCEPT !.st = "start", !.keys = keys]

\* tasks = [create_task(node_operation(node, keys)) for ...]; await gather(*tasks)
FanOut(a) ==
    LET groups == pick_nodes(a.keys)
        used == { n \in Nodes : Len(groups[n]) > 0 }
    IN SetCall(a, NoOutcome, <<>>, {}, {}, Awaiting("gather"),
               [n \in Nodes |-> IF n \in used THEN StartTask(groups[n]) ELSE NoTask],
               [NoGather EXCEPT !.st = "pending", !.nfuts = Cardinality(used)],
               WakesOf(used), Armed)

\* AutoBatching.execute: the key joins the batch of its node, the flush is
\* scheduled for the next turn and the caller waits for its waiter
Batched(a) ==
    LET node == pick_node(a.keys[1])
    IN SetCall(a, NoOutcome, <<>>, {}, {}, Awaiting("batched"),
               [n \in Nodes |-> IF n = node THEN StartTask(a.keys) ELSE NoTask],
               NoGather, <<Wake(node)>>, Armed)

\* a command of the caller: `pre` is what its validation says
Invoke(a, pre) ==
    /\ parent.pc = "idle"
    /\ block = "none"
    /\ IF pre = ReturnEmpty THEN EndsAtOnce(a, Return(<<>>))
       ELSE IF pre # Proceed THEN EndsAtOnce(a, Raise(pre))
       ELSE IF a.op \in ManyOps THEN FanOut(a)
       ELSE IF a.batched THEN Batched(a)
       ELSE IF a.op \in NodeOps THEN OnConnection(a, a.node)
       ELSE OnConnection(a, pick_node(a.keys[1]))
    /\ UNCHANGED <<sideVars, poolVars, cfgVars, closeVars, pipeVars>>


\* -------------------------------------------------- _Client: the commands

Client_get ==
    \E key \in TestKeys, return_flags \in BOOLEAN :
        Invoke(Args("get", <<key>>, 0, None, FALSE, 0, return_flags, 1),
               IF autobatching THEN AutoBatching_execute_check(closed, key)
               ELSE Client_fetch_command(closed, key))

Client_gets ==
    \E key \in TestKeys, return_flags \in BOOLEAN :
        Invoke(Args("gets", <<key>>, 0, None, FALSE, 0, return_flags, 1),
               IF autobatching THEN AutoBatching_execute_check(closed, key)
               ELSE Client_fetch_command(closed, key))

Client_get_many ==
    \E keys \in TestKeySeqs, return_flags \in BOOLEAN :
        Invoke(Args("get_many", keys, 0, None, FALSE, 0, return_flags, 1),
               Client_fetch_many_command(closed, keys))

Client_gets_many ==
    \E keys \in TestKeySeqs, return_flags \in BOOLEAN :
        Invoke(Args("gets_many", keys, 0, None, FALSE, 0, return_flags, 1),
               Client_fetch_many_command(closed, keys))

Client_set ==
    \E key \in TestKeys, flags \in TestFlags, noreply \in BOOLEAN :
        Invoke(Args("set", <<key>>, flags, None, noreply, 0, FALSE, 1),
               Client_storage_command(closed, key, flags, None))

Client_add ==
    \E key \in TestKeys, flags \in TestFlags, noreply \in BOOLEAN :
        Invoke(Args("add", <<key>>, flags, None, noreply, 0, FALSE, 1),
               Client_storage_command(closed, key, flags, None))

Client_replace ==
    \E key \in TestKeys, flags \in TestFlags, noreply \in BOOLEAN :
        Invoke(Args("replace", <<key>>, flags, None, noreply, 0, FALSE, 1),
               Client_storage_command(closed, key, flags, None))

Client_append ==
    \E key \in TestKeys, noreply \in BOOLEAN :
        Invoke(Args("append", <<key>>, 0, None, noreply, 0, FALSE, 1),
               Client_storage_command(closed, key, 0, None))

Client_prepend ==
    \E key \in TestKeys, noreply \in BOOLEAN :
        Invoke(Args("prepend", <<key>>, 0, None, noreply, 0, FALSE, 1),
               Client_storage_command(closed, key, 0, None))

Client_cas ==
    \E key \in TestKeys, cas \in TestCas, flags \in TestFlags, noreply \in BOOLEAN :
        Invoke(Args("cas", <<key>>, flags, cas, noreply, 0, FALSE, 1),
               Client_storage_command(closed, key, flags, cas))

Client_increment ==
    \E key \in TestKeys, value \in TestDeltas, noreply \in BOOLEAN :
        Invoke(Args("increment", <<key>>, 0, None, noreply, value, FALSE, 1),
               Client_incr_decr_command(closed, key, value))

Client_decrement ==
    \E key \in TestKeys, value \in TestDeltas, noreply \in BOOLEAN :
        Invoke(Args("decrement", <<key>>, 0, None, noreply, value, FALSE, 1),
               Client_incr_decr_command(closed, key, value))

Client_touch ==
    \E key \in TestKeys, noreply \in BOOLEAN :
        Invoke(Args("touch", <<key>>, 0, None, noreply, 0, FALSE, 1),
               Client_touch_check(closed, key))

Client_delete ==
    \E key \in TestKeys, noreply \in BOOLEAN :
        Invoke(Args("delete", <<key>>, 0, None, noreply, 0, FALSE, 1),
               Client_delete_check(closed, key))

Client_flush_all ==
    \E node \in Nodes, noreply \in BOOLEAN :
        Invoke(Args("flush_all", <<>>, 0, None, noreply, 0, FALSE, node),
               Client_node_command_check(closed))

Client_cache_memlimit ==
    \E node \in Nodes, noreply \in BOOLEAN :
        Invoke(Args("cache_memlimit", <<>>, 0, None, noreply, 0, FALSE, node),
               Client_node_command_check(closed))

Client_verbosity ==
    \E node \in Nodes, noreply \in BOOLEAN :
        Invoke(Args("verbosity", <<>>, 0, None, noreply, 0, FALSE, node),
               Client_node_command_check(closed))

Client_version ==
    \E node \in Nodes :
        Invoke(Args("version", <<>>, 0, None, FALSE, 0, FALSE, node),
               Client_node_command_check(closed))

Client_stats ==
    \E node \in Nodes :
        Invoke(Args("stats", <<>>, 0, None, FALSE, 0, FALSE, node),
               Client_node_command_check(closed))

Client_gat ==
    \E key \in TestKeys, return_flags \in BOOLEAN :
        Invoke(Args("gat", <<key>>, 0, None, FALSE, 0, return_flags, 1),
               Client_get_and_touch_command(closed, key))

Client_gats ==
    \E key \in TestKeys, return_flags \in BOOLEAN :
        Invoke(Args("gats", <<key>>, 0, None, FALSE, 0, return_flags, 1),
               Client_get_and_touch_command(closed, key))

Client_gat_many ==
    \E keys \in TestKeySeqs, return_flags \in BOOLEAN :
        Invoke(Args("gat_many", keys, 0, None, FALSE, 0, return_flags, 1),
               Client_get_and_touch_many_command(closed, keys))

Client_gats_many ==
    \E keys \in TestKeySeqs, return_flags \in BOOLEAN :
        Invoke(Args("gats_many", keys, 0, None, FALSE, 0, return_flags, 1),
               Client_get_and_touch_many_command(closed, keys))


\* ------------------------------------------------ _Pipeline: the actions
\* async with client.pipeline(address) as pipe: the block is entered
Client_pipeline ==
    /\ parent.pc = "idle"
    /\ block = "none"
    /\ \E address \in TestAddresses : pipe' = address
    /\ stack' = <<>>
    /\ block' = "open"
    /\ attempts' = <<>>
    /\ UNCHANGED <<sideVars, poolVars, cfgVars, closeVars, callVars, loopVars>>

\* a variant of the builder that appends before it validates
Push_then_validate(c, pre) ==
    /\ block = "open"
    /\ parent.pc = "idle"
    /\ Len(stack) < MaxStack
    /\ stack' = Append(stack, c)
    /\ block' = IF pre = Proceed THEN block ELSE pre
    /\ UNCHANGED <<sideVars, poolVars, pipe, attempts, cfgVars, closeVars, callVars, loopVars>>

\* a builder method: `pre` is what its validation says.  The command is
\* appended, or the error is raised and the stack is left as it is.
Push(c, pre) ==
    /\ block = "open"
    /\ parent.pc = "idle"
    /\ Len(stack) < MaxStack
    /\ IF pre = Proceed
       THEN stack' = Append(stack, c) /\ block' = block
       ELSE stack' = stack /\ block' = pre
    /\ UNCHANGED <<sideVars, poolVars, pipe, attempts, cfgVars, closeVars, callVars, loopVars>>

Pipeline_get ==
    \E key \in PipeKeys :
        Push(Command("get", <<key>>, 0, None, FALSE, 0), Pipeline_retrieval_command(<<key>>))

Pipeline_gets ==
    \E key \in PipeKeys :
        Push(Command("gets", <<key>>, 0, None, FALSE, 0), Pipeline_retrieval_command(<<key>>))

Pipeline_get_many ==
    \E keys \in PipeKeySeqs :
        Push(Command("get", keys, 0, None, FALSE, 0), Pipeline_retrieval_command(keys))

Pipeline_gets_many ==
    \E keys \in PipeKeySeqs :
        Push(Command("gets", keys, 0, None, FALSE, 0), Pipeline_retrieval_command(keys))

Pipeline_set ==
    \E key \in PipeKeys, flags \in PipeFlags, noreply \in BOOLEAN :
        Push(Command("set", <<key>>, flags, None, noreply, 0),
             Pipeline_storage_command(key, flags, None))

Pipeline_add ==
    \E key \in PipeKeys, flags \in PipeFlags :
        Push(Command("add", <<key>>, flags, None, FALSE, 0),
             Pipeline_storage_command(key, flags, None))

Pipeline_replace ==
    \E key \in PipeKeys, flags \in PipeFlags :
        Push(Command("replace", <<key>>, flags, None, FALSE, 0),
             Pipeline_storage_command(key, flags, None))

Pipeline_append ==
    \E key \in PipeKeys :
        Push(Command("append", <<key>>, 0, None, FALSE, 0),
             Pipeline_storage_command(key, 0, None))

Pipeline_prepend ==
    \E key \in PipeKeys :
        Push(Command("prepend", <<key>>, 0, None, FALSE, 0),
             Pipeline_storage_command(key, 0, None))

Pipeline_cas ==
    \E key \in PipeKeys, cas \in PipeCas, flags \in PipeFlags :
        Push(Command("cas", <<key>>, flags, cas, FALSE, 0),
             Pipeline_storage_command(key, flags, cas))

Pipeline_increment ==
    \E key \in PipeKeys, value \in PipeDeltas :
        Push(Command("incr", <<key>>, 0, None, FALSE, value),
             Pipeline_incr_decr_command(key, value))

Pipeline_decrement ==
    \E key \in PipeKeys, value \in PipeDeltas :
        Push(Command("decr", <<key>>, 0, None, FALSE, value),
             Pipeline_incr_decr_command(key, value))

\* touch and delete format the key into the command as it is given
Pipeline_touch ==
    \E key \in PipeKeys :
        Push(Command("touch", <<key>>, 0, None, FALSE, 0), Proceed)

Pipeline_delete ==
    \E key \in PipeKeys, noreply \in BOOLEAN :
        Push(Command("delete", <<key>>, 0, None, noreply, 0), Proceed)

Pipeline_flush_all ==
    Push(Command("flush_all", <<>>, 0, None, FALSE, 0), Proceed)

Pipeline_version ==
    Push(Command("version", <<>>, 0, None, FALSE, 0), Proceed)

Pipeline_gat ==
    \E key \in PipeKeys :
        Push(Command("gat", <<key>>, 0, None, FALSE, 0),
             Pipeline_get_and_touch_command(<<key>>))

Pipeline_gats ==
    \E key \in PipeKeys :
        Push(Command("gats", <<key>>, 0, None, FALSE, 0),
             Pipeline_get_and_touch_command(<<key>>))

Pipeline_gat_many ==
    \E keys \in PipeKeySeqs :
        Push(Command("gat", keys, 0, None, FALSE, 0), Pipeline_get_and_touch_command(keys))

Pipeline_gats_many ==
    \E keys \in PipeKeySeqs :
        Push(Command("gats", keys, 0, None, FALSE, 0), Pipeline_get_and_touch_command(keys))

Pipeline_cache_memlimit ==
    Push(Command("cache_memlimit", <<>>, 0, None, FALSE, 0), Proceed)

Pipeline_stats ==
    Push(Command("stats", <<>>, 0, None, FALSE, 0), Proceed)

Pipeline_verbosity ==
    Push(Command("verbosity", <<>>, 0, None, FALSE, 0), Proceed)

\* the check execute() makes before it joins the stack
Pipeline_execute_check(isClosed) ==
    IF isClosed THEN ClientClosed ELSE Proceed

\* a variant of execute() that empties the stack however it ends
Pipeline_execute_stack_always_emptied(out, commands) == <<>>

\* self.stack = [] is the last statement before the return of execute()
Pipeline_execute_stack(out, commands) ==
    IF out.kind = "return" THEN <<>> ELSE commands

\* one execute() call of the block
Attempt(commands, before) ==
    [stack |-> commands, before |-> [kind |-> before.kind, err |-> before.err]]

\* execute(): the commands of the stack go out in one request on a
\* connection of the pipeline's node.  The caller may call it again in the
\* same block once the call before has returned or raised.
Pipeline_execute ==
    /\ block = "open"
    /\ parent.pc \in {"idle", "done"}
    /\ Len(attempts) < MaxExecutes
    /\ LET a == Args("execute", <<>>, 0, None, FALSE, 0, FALSE, pipe)
           pre == Pipeline_execute_check(closed)
       IN IF pre # Proceed THEN EndsAtOnce(a, Raise(pre))
          ELSE OnConnection(a, pipe)
    /\ attempts' = Append(attempts, Attempt(stack, outcome))
    /\ UNCHANGED <<sideVars, poolVars, cfgVars, closeVars, pipe, stack, block>>

\* __aexit__: the block is left, after execute() or by the error of a builder
Pipeline_aexit ==
    /\ block \in {"open", InvalidArgument}
    /\ parent.pc \in {"idle", "done"}
    /\ stack' = <<>>
    /\ block' = "exited"
    /\ UNCHANGED <<sideVars, poolVars, pipe, attempts, cfgVars, closeVars, callVars, loopVars>>

\* a variant of close() that does not look at `closed` first
Client_close_unguarded ==
    /\ closeCalls < MaxCloses
    /\ parent.pc = "idle"
    /\ block = "none"
    /\ closeCalls' = closeCalls + 1
    /\ closed' = TRUE
    /\ clusterCloseCalls' = clusterCloseCalls + 1
    /\ cascade' = "running"
    /\ UNCHANGED <<sideVars, poolVars, cfgVars, callVars, loopVars, pipeVars>>

\* ------------------------------------------------------ _Client.close
\* close() up to its await: a closed client returns at once, else the
\* client is marked closed and Cluster.close() is entered.  The outcome of a
\* command that is in flight when close() runs is not defined: close() is
\* called before the command.
Client_close ==
    /\ closeCalls < MaxCloses
    /\ parent.pc = "idle"
    /\ block = "none"
    /\ closeCalls' = closeCalls + 1
    /\ IF closed
       THEN UNCHANGED <<closed, clusterCloseCalls, cascade>>
       ELSE /\ closed' = TRUE
            /\ clusterCloseCalls' = clusterCloseCalls + 1
            /\ cascade' = "running"
    /\ UNCHANGED <<sideVars, poolVars, cfgVars, callVars, loopVars, pipeVars>>

\* Cluster.close() has closed every pool: the first close() returns
Cluster_close_done ==
    /\ cascade = "running"
    /\ cascade' = "done"
    /\ UNCHANGED <<sideVars, poolVars, cfgVars, closed, closeCalls, clusterCloseCalls, callVars, loopVars,
                   pipeVars>>

\* ------------------------------------------------- the loop: its events
\* BaseEventLoop._run_once: the handles scheduled so far, then the timer
\* when it is due, make the next iteration
RunOnce ==
    /\ ready = <<>>
    /\ \E due \in BOOLEAN :
        /\ due => timer = "armed"
        /\ due \/ sched # <<>>
        /\ ready' = sched \o (IF due THEN <<TimerHandle>> ELSE <<>>)
        /\ timer' = IF due THEN "queued" ELSE timer
    /\ sched' = <<>>
    /\ UNCHANGED <<sideVars, poolVars, cfgVars, closeVars, callVars, parent, tasks, gather, timedOut, pipeVars>>

\* the replies the node of the caller's command can give
Replies(a) ==
    IF a.op \in SingleOps THEN FetchReplies(a.keys)
    ELSE IF a.op = "execute" THEN PipelineReplies(stack) \ { <<>> }
    ELSE LineReplies

\* the pool hands a connection to a waiting task (0 is the caller's task)
ConnectionAvailable(o) ==
    /\ IF o = 0
       THEN /\ parent.pc = "acquire" /\ parent.fut = "pending"
            /\ parent' = [parent EXCEPT !.fut = "result"]
            /\ tasks' = tasks
       ELSE /\ tasks[o].st = "acquire" /\ tasks[o].fut = "pending"
            /\ tasks' = [tasks EXCEPT ![o].fut = "result"]
            /\ parent' = parent
    /\ sched' = Append(sched, Wake(o))
    /\ UNCHANGED <<sideVars, poolVars, cfgVars, closeVars, callVars, gather, ready, timer, timedOut, pipeVars>>

\* the reply of the node arrives on the connection of a task
ReplyArrives(o) ==
    /\ IF o = 0
       THEN /\ parent.pc = "inflight" /\ parent.fut = "pending"
            /\ \E r \in Replies(cur) :
                   parent' = [parent EXCEPT !.fut = "result", !.val = r]
            /\ tasks' = tasks
       ELSE /\ tasks[o].st = "inflight" /\ tasks[o].fut = "pending"
            /\ \E r \in FetchReplies(tasks[o].keys) :
                   tasks' = [tasks EXCEPT ![o].fut = "result", ![o].val = r]
            /\ parent' = parent
    /\ sched' = Append(sched, Wake(o))
    /\ UNCHANGED <<sideVars, poolVars, cfgVars, closeVars, callVars, gather, ready, timer, timedOut, pipeVars>>

\* the connection of a task breaks while its request is in flight
ConnectionLost(o) ==
    /\ IF o = 0
       THEN /\ parent.pc = "inflight" /\ parent.fut = "pending"
            /\ parent' = [parent EXCEPT !.fut = "exception", !.exc = ConnectionFailure]
            /\ tasks' = tasks
       ELSE /\ tasks[o].st = "inflight" /\ tasks[o].fut = "pending"
            /\ tasks' = [tasks EXCEPT ![o].fut = "exception", ![o].exc = ConnectionFailure]
            /\ parent' = parent
    /\ sched' = Append(sched, Wake(o))
    /\ UNCHANGED <<sideVars, poolVars, cfgVars, closeVars, callVars, gather, ready, timer, timedOut, pipeVars>>


\* ------------------------------------------------ the loop: its handles
\* a variant of the guard that lets the cancellation through
OpTimeout_exit_passes_cancellation(out) == out

\* OpTimeout.__aexit__: a cancellation caused by the deadline is a timeout
OpTimeout_exit(out) ==
    IF timedOut /\ out.kind = "raise" /\ out.err = CancelledError
    THEN Raise(TimeoutError)
    ELSE out

\* the caller's coroutine ends: the deadline is cancelled with it
Finish(out, r) ==
    /\ parent' = DoneParent
    /\ reply' = r
    /\ outcome' = OpTimeout_exit(out)
    /\ timer' = IF timer \in {"armed", "queued"} THEN "cancelled" ELSE timer
    /\ ready' = Remove(Tail(ready), TimerHandle)

\* OpTimeout._on_timeout: the deadline fires and cancels the guarded task.
\* Task.cancel() cancels the future the task waits for; when that future is
\* already done the task is marked to be cancelled at its next step.
\* Cancelling the future of gather cancels every child that is not done.
OpTimeout_on_timeout ==
    /\ ready # <<>>
    /\ Head(ready) = TimerHandle
    /\ ready' = Tail(ready)
    /\ timer' = "fired"
    /\ timedOut' = TRUE
    /\ CASE parent.pc \in {"acquire", "inflight"} /\ parent.fut = "pending" ->
              /\ parent' = [parent EXCEPT !.fut = "cancelled"]
              /\ sched' = Append(sched, Wake(0))
              /\ UNCHANGED <<tasks, gather>>
         [] parent.pc \in {"acquire", "inflight"} /\ parent.fut # "pending" ->
              /\ parent' = [parent EXCEPT !.mustCancel = TRUE]
              /\ UNCHANGED <<tasks, gather, sched>>
         [] parent.pc = "gather" /\ gather.st = "pending" /\ Cancellable # {} ->
              /\ tasks' = [n \in Nodes |-> Task_cancel(tasks[n])]
              /\ gather' = [gather EXCEPT !.cancelReq = TRUE]
              /\ sched' = sched \o WakesOf(CancelWakes)
              /\ UNCHANGED parent
         [] parent.pc = "gather" /\ ~(gather.st = "pending" /\ Cancellable # {}) ->
              /\ parent' = [parent EXCEPT !.mustCancel = TRUE]
              /\ UNCHANGED <<tasks, gather, sched>>
         [] parent.pc = "batched" ->
              /\ tasks' = [n \in Nodes |-> Task_cancel(tasks[n])]
              /\ sched' = sched \o WakesOf(CancelWakes)
              /\ UNCHANGED <<parent, gather>>
    /\ UNCHANGED <<sideVars, poolVars, cfgVars, closeVars, callVars, pipeVars>>

\* [task.result() for task in tasks]
TaskResults ==
    LET used == { n \in Nodes : tasks[n].st # "none" }
    IN [i \in 1..Cardinality(used) |-> tasks[SeqOfNodes(used, 1)[i]].val]

\* Task.__step of the caller's task: the coroutine of the command resumes
ParentStep ==
    /\ ready # <<>>
    /\ Head(ready) = Wake(0)
    /\ LET cancelled == parent.mustCancel \/ parent.fut = "cancelled"
           node == IF cur.op \in NodeOps \cup {"execute"} THEN cur.node
                   ELSE pick_node(cur.keys[1])
       IN CASE parent.pc = "acquire" /\ cancelled ->
                 /\ Finish(Raise(CancelledError), None)
                 /\ UNCHANGED <<wire, leases, acquired, tasks, gather, sched>>
            [] parent.pc = "acquire" /\ ~cancelled ->
                 /\ wire' = Append(wire, Request(node, cur, cur.keys))
                 /\ acquired' = acquired \cup {node}
                 /\ IF cur.noreply
                    THEN Finish(Outcome(cur, None), None) /\ leases' = leases
                    ELSE /\ parent' = Awaiting("inflight")
                         /\ leases' = leases \cup {node}
                         /\ ready' = Tail(ready)
                         /\ UNCHANGED <<outcome, reply, timer>>
                 /\ UNCHANGED <<tasks, gather, sched>>
            [] parent.pc = "inflight" ->
                 /\ leases' = leases \ {node}
                 /\ Finish(IF cancelled THEN Raise(CancelledError)
                           ELSE IF parent.fut = "exception" THEN Raise(parent.exc)
                           ELSE Outcome(cur, parent.val),
                           IF cancelled \/ parent.fut = "exception" THEN None
                           ELSE Some(parent.val))
                 /\ UNCHANGED <<wire, acquired, tasks, gather, sched>>
            [] parent.pc = "gather" /\ (cancelled \/ gather.exc = CancelledError) ->
                 /\ Finish(Raise(CancelledError), None)
                 /\ UNCHANGED <<wire, leases, acquired, tasks, gather, sched>>
            [] parent.pc = "gather" /\ ~cancelled /\ gather.st = "result" ->
                 /\ Finish(ManyOutcome(cur, TaskResults), Some(TaskResults))
                 /\ UNCHANGED <<wire, leases, acquired, tasks, gather, sched>>
            [] parent.pc = "gather" /\ ~cancelled /\ gather.st = "exception"
                   /\ gather.exc # CancelledError ->
                 /\ tasks' = Cancel_not_done(tasks)
                 /\ sched' = sched \o WakesOf(CancelWakes)
                 /\ Finish(Raise(gather.exc), None)
                 /\ UNCHANGED <<wire, leases, acquired, gather>>
            [] parent.pc = "batched" ->
                 /\ Finish(IF parent.fut = "exception" THEN Raise(parent.exc)
                           ELSE Outcome(cur, parent.val),
                           IF parent.fut = "exception" THEN None ELSE Some(parent.val))
                 /\ UNCHANGED <<wire, leases, acquired, tasks, gather, sched>>
    /\ stack' = IF cur.op = "execute" THEN Pipeline_execute_stack(outcome', stack) ELSE stack
    /\ UNCHANGED <<sideVars, poolVars, cfgVars, closeVars, cur, timedOut, pipe, block, attempts>>


\* Task.__step of a child task: node_operation resumes.  A child that ends
\* schedules its done callback; the batch operation carries its own deadline.
ChildStep(n) ==
    /\ ready # <<>>
    /\ Head(ready) = Wake(n)
    /\ LET t == tasks[n]
           cancelled == t.mustCancel \/ t.fut = "cancelled"
           ends(st, val, exc) ==
               tasks' = [tasks EXCEPT ![n] = [t EXCEPT !.st = st, !.fut = "none",
                                                      !.val = val, !.exc = exc,
                                                      !.mustCancel = FALSE]]
           sends ==
               /\ tasks' = [tasks EXCEPT ![n].st = "inflight", ![n].fut = "pending"]
               /\ wire' = Append(wire, Request(n, cur, t.keys))
               /\ leases' = leases \cup {n}
               /\ acquired' = acquired \cup {n}
       IN CASE t.st \in {"start", "acquire"} /\ cancelled ->
                 /\ ends("cancelled", None, CancelledError)
                 /\ UNCHANGED <<wire, leases, acquired>>
            [] t.st = "start" /\ ~cancelled ->
                 \E idle \in BOOLEAN :
                     IF idle THEN sends
                     ELSE /\ tasks' = [tasks EXCEPT ![n].st = "acquire",
                                                    ![n].fut = "pending"]
                          /\ UNCHANGED <<wire, leases, acquired>>
            [] t.st = "acquire" /\ ~cancelled -> sends
            [] t.st = "inflight" ->
                 /\ leases' = leases \ {n}
                 /\ IF cancelled THEN ends("cancelled", None, CancelledError)
                    ELSE IF t.fut = "exception" THEN ends("exc", None, t.exc)
                    ELSE ends("ok", t.val, "")
                 /\ UNCHANGED <<wire, acquired>>
    /\ ready' = IF cur.batched /\ tasks'[n].st \in Done
                THEN Remove(Tail(ready), TimerHandle) ELSE Tail(ready)
    /\ timer' = IF cur.batched /\ tasks'[n].st \in Done /\ timer \in {"armed", "queued"}
                THEN "cancelled" ELSE timer
    /\ sched' = IF tasks'[n].st \in Done THEN Append(sched, DoneCallback(n)) ELSE sched
    /\ UNCHANGED <<sideVars, poolVars, cfgVars, closeVars, cur, outcome, reply, parent, gather, timedOut,
                   pipeVars>>

\* gather's _done_callback for child n: the first child that is cancelled or
\* raises completes the future at once, else the last child to end does
Gather_done_callback(n) ==
    /\ ready # <<>>
    /\ Head(ready) = DoneCallback(n)
    /\ parent.pc # "batched"
    /\ ready' = Tail(ready)
    /\ LET nfinished == gather.nfinished + 1
           t == tasks[n]
       IN IF gather.st # "pending"
          THEN /\ gather' = [gather EXCEPT !.nfinished = nfinished]
               /\ sched' = sched
          ELSE IF t.st \in {"cancelled", "exc"}
          THEN /\ gather' = [gather EXCEPT !.nfinished = nfinished, !.st = "exception",
                                           !.exc = t.exc]
               /\ sched' = Append(sched, Wake(0))
          ELSE IF nfinished = gather.nfuts
          THEN /\ gather' = [gather EXCEPT !.nfinished = nfinished,
                                !.st = IF gather.cancelReq THEN "exception" ELSE "result",
                                !.exc = IF gather.cancelReq THEN CancelledError ELSE ""]
               /\ sched' = Append(sched, Wake(0))
          ELSE /\ gather' = [gather EXCEPT !.nfinished = nfinished]
               /\ sched' = sched
    /\ UNCHANGED <<sideVars, poolVars, cfgVars, closeVars, callVars, parent, tasks, timer, timedOut, pipeVars>>

\* the batch operation of node n has ended: the batcher resolves the waiter
\* of the caller with the reply, or rejects it with the error of the batch
AutoBatching_resolve(n) ==
    /\ ready # <<>>
    /\ Head(ready) = DoneCallback(n)
    /\ parent.pc = "batched"
    /\ ready' = Tail(ready)
    /\ LET t == tasks[n]
       IN parent' = IF t.st = "ok"
                    THEN [parent EXCEPT !.fut = "result", !.val = t.val]
                    ELSE [parent EXCEPT !.fut = "exception",
                                        !.exc = IF t.st = "cancelled" /\ timedOut
                                                THEN TimeoutError ELSE t.exc]
    /\ sched' = Append(sched, Wake(0))
    /\ UNCHANGED <<sideVars, poolVars, cfgVars, closeVars, callVars, tasks, gather, timer, timedOut, pipeVars>>

\* the commands of the client, close() and the event loop
ClientNext ==
    \/ Client_get \/ Client_gets \/ Client_get_many \/ Client_gets_many
    \/ Client_set \/ Client_add \/ Client_replace \/ Client_append \/ Client_prepend
    \/ Client_cas \/ Client_increment \/ Client_decrement \/ Client_touch
    \/ Client_delete \/ Client_flush_all \/ Client_version \/ Client_gat \/ Client_gats
    \/ Client_gat_many \/ Client_gats_many \/ Client_cache_memlimit \/ Client_stats
    \/ Client_verbosity
    \/ Client_close \/ Cluster_close_done
    \/ RunOnce
    \/ \E o \in {0} \cup Nodes : ConnectionAvailable(o)
    \/ \E o \in {0} \cup Nodes : ReplyArrives(o)
    \/ \E o \in {0} \cup Nodes : ConnectionLost(o)
    \/ OpTimeout_on_timeout
    \/ ParentStep
    \/ \E n \in Nodes : ChildStep(n)
    \/ \E n \in Nodes : Gather_done_callback(n)
    \/ \E n \in Nodes : AutoBatching_resolve(n)

\* the pipeline block: its builders, execute() and its exit
PipelineNext ==
    \/ Client_pipeline
    \/ Pipeline_get \/ Pipeline_gets \/ Pipeline_get_many \/ Pipeline_gets_many
    \/ Pipeline_set \/ Pipeline_add \/ Pipeline_replace \/ Pipeline_append
    \/ Pipeline_prepend \/ Pipeline_cas \/ Pipeline_increment \/ Pipeline_decrement
    \/ Pipeline_touch \/ Pipeline_delete \/ Pipeline_flush_all \/ Pipeline_version
    \/ Pipeline_gat \/ Pipeline_gats \/ Pipeline_gat_many \/ Pipeline_gats_many
    \/ Pipeline_cache_memlimit \/ Pipeline_stats \/ Pipeline_verbosity
    \/ Pipeline_execute \/ Pipeline_aexit

Next == ClientNext \/ PipelineNext

\* the client with its commands, its pipelines, close() and the event loop
Spec == Init /\ [][Next]_vars

\* the client without pipelines
ClientSpec == Init /\ [][ClientNext]_vars

\* an iteration of the loop that finds the deadline of the call reached
DeadlinePasses == RunOnce /\ timer' = "queued"

\* The loop keeps iterating and runs every handle of an iteration, and the
\* clock advances: a deadline that stays armed is reached at some iteration.
\* Nothing is assumed of the pool or of the node.
ClientLiveSpec ==
    /\ ClientSpec
    /\ WF_vars(RunOnce)
    /\ SF_vars(DeadlinePasses)
    /\ WF_vars(OpTimeout_on_timeout)
    /\ WF_vars(ParentStep)
    /\ \A n \in Nodes : WF_vars(ChildStep(n))
    /\ \A n \in Nodes : WF_vars(Gather_done_callback(n))
    /\ \A n \in Nodes : WF_vars(AutoBatching_resolve(n))

\* ------------------------------------------------- the pool of one node
\* Every command of the client, every sub-request of a fan-out command and
\* execute() run `async with node.connection() as connection:` and then
\* await one command of the connection.  The tasks of Callers do so on the
\* pool of one node, for one key.

\* the connections that can be leased
Idle == connections \ in_use

\* a command on the wire, and the response of the node to it
Cmd(id, kind, noreply) == [id |-> id, kind |-> kind, noreply |-> noreply]
Resp(id, seen) == [id |-> id, seen |-> seen]

\* the task leases connection c for the command it is about to write
Lease(k, c, kind, noreply) ==
    [callers[k] EXCEPT !.pc = "leased", !.conn = c, !.kind = kind, !.noreply = noreply,
                       !.sole = callers[k].pc = "idle" /\ Idle = {callers[k].followsConn},
                       !.result = NoResult]

\* the task waits on the condition of the pool
Wait(k, kind, noreply) ==
    [callers[k] EXCEPT !.pc = "waiting", !.kind = kind, !.noreply = noreply,
                       !.result = NoResult]

\* a variant of the lease protocol that creates without counting the
\* creations already running
ConnectionPool_acquire_uncounted(k, kind, noreply) ==
    /\ IF Idle # {}
       THEN /\ \E c \in Idle :
                 /\ in_use' = in_use \cup {c}
                 /\ callers' = [callers EXCEPT ![k] = Lease(k, c, kind, noreply)]
            /\ creating' = creating
       ELSE /\ creating' = IF Cardinality(connections) < MaxConnections
                           THEN creating + 1 ELSE creating
            /\ callers' = [callers EXCEPT ![k] = Wait(k, kind, noreply)]
            /\ in_use' = in_use

\* a variant of the lease protocol that hands out any connection of the
\* pool, leased or not
ConnectionPool_acquire_shared(k, kind, noreply) ==
    /\ IF connections # {}
       THEN /\ \E c \in connections :
                 /\ in_use' = in_use \cup {c}
                 /\ callers' = [callers EXCEPT ![k] = Lease(k, c, kind, noreply)]
            /\ creating' = creating
       ELSE /\ creating' = IF Cardinality(connections) + creating < MaxConnections
                           THEN creating + 1 ELSE creating
            /\ callers' = [callers EXCEPT ![k] = Wait(k, kind, noreply)]
            /\ in_use' = in_use

\* ConnectionPool.acquire: an idle connection is popped; else a creation is
\* launched when connections and running creations are below the maximum,
\* and the task waits on the condition
ConnectionPool_acquire(k, kind, noreply) ==
    /\ IF Idle # {}
       THEN /\ \E c \in Idle :
                 /\ in_use' = in_use \cup {c}
                 /\ callers' = [callers EXCEPT ![k] = Lease(k, c, kind, noreply)]
            /\ creating' = creating
       ELSE /\ creating' = IF Cardinality(connections) + creating < MaxConnections
                           THEN creating + 1 ELSE creating
            /\ callers' = [callers EXCEPT ![k] = Wait(k, kind, noreply)]
            /\ in_use' = in_use

\* a task enters `async with node.connection()` for its next command
Node_connection(k) ==
    /\ callers[k].pc = "idle"
    /\ ~poolClosed
    /\ issued + Cardinality({ j \in Callers : callers[j].pc \in {"waiting", "leased"} })
           < MaxCommands
    /\ \E kind \in {"get", "set"}, noreply \in BOOLEAN :
           /\ noreply => kind = "set"
           /\ ConnectionPool_acquire(k, kind, noreply)
    /\ UNCHANGED <<sideVars, clientVars, connections, poolClosed, created, connState, reqs, stream,
                   store, issued>>

\* a waiting task is signalled: it takes an idle connection, or launches the
\* creation that is missing and keeps waiting
ConnectionPool_wakeup(k) ==
    /\ callers[k].pc = "waiting"
    /\ ~poolClosed
    /\ Idle # {} \/ Cardinality(connections) + creating < MaxConnections
    /\ created + creating < MaxCreated \/ Idle # {}
    /\ ConnectionPool_acquire(k, callers[k].kind, callers[k].noreply)
    /\ UNCHANGED <<sideVars, clientVars, connections, poolClosed, created, connState, reqs, stream,
                   store, issued>>

\* a background creation ends: connect, TLS and authentication succeeded and
\* the connection joins the pool, or they failed
ConnectionPool_create_done ==
    /\ creating > 0
    /\ creating' = creating - 1
    /\ \E ok \in BOOLEAN :
           IF ok /\ created < MaxCreated
           THEN /\ created' = created + 1
                /\ connState' = [connState EXCEPT ![created + 1] = "Open"]
                /\ connections' = connections \cup {created + 1}
           ELSE UNCHANGED <<created, connState, connections>>
    /\ UNCHANGED <<sideVars, clientVars, in_use, poolClosed, reqs, stream, store, issued, callers>>

\* the context manager of the lease exits: an exception in the block closes
\* the connection.  ConnectionPool.release drops a Closed connection from
\* the pool and returns any other to the idle ones.
\* A variant that returns the connection to the idle ones whatever happened:
ConnectionPool_release_reuses(c, exc) ==
    /\ connState' = connState
    /\ connections' = connections
    /\ in_use' = in_use \ {c}

ConnectionPool_release(c, exc) ==
    /\ connState' = [connState EXCEPT ![c] = IF exc THEN "Closed" ELSE @]
    /\ connections' = IF connState'[c] = "Closed" THEN connections \ {c} ELSE connections
    /\ in_use' = in_use \ {c}

\* what a task leaves behind when its command has ended
Ended(k, res) ==
    [callers[k] EXCEPT !.pc = "idle", !.kind = "none", !.noreply = FALSE, !.conn = 0,
                       !.cmd = 0, !.follows = 0, !.followsConn = 0, !.sole = FALSE,
                       !.result = res]

\* await connection.<command>(...): the request is written.  With noreply
\* the command returns as soon as its bytes are written and the lease ends.
Connection_command(k) ==
    /\ callers[k].pc = "leased"
    /\ connState[callers[k].conn] = "Open"
    /\ LET c == callers[k].conn
           id == issued + 1
       IN /\ issued' = id
          /\ reqs' = [reqs EXCEPT ![c] = Append(@, Cmd(id, callers[k].kind, callers[k].noreply))]
          /\ IF callers[k].noreply
             THEN /\ callers' = [callers EXCEPT ![k] =
                         [Ended(k, [NoResult EXCEPT !.kind = "sent", !.cmd = id, !.conn = c])
                              EXCEPT !.follows = id, !.followsConn = c]]
                  /\ ConnectionPool_release(c, FALSE)
             ELSE /\ callers' = [callers EXCEPT ![k].pc = "inflight", ![k].cmd = id]
                  /\ UNCHANGED <<connState, connections, in_use>>
    /\ UNCHANGED <<sideVars, clientVars, creating, poolClosed, created, stream, store>>

\* a variant of the node that answers every command, noreply or not
Answered_always(cmd) == TRUE

\* the node sends a response unless the command carries noreply
Answered(cmd) == ~cmd.noreply

\* a variant of the node that serves the requests of a connection in any
\* order
Node_process_any_order(c) ==
    /\ \E i \in 1..Len(reqs[c]) :
           LET cmd == reqs[c][i]
               applied == IF cmd.kind = "set" THEN store \cup {cmd.id} ELSE store
           IN /\ store' = applied
              /\ reqs' = [reqs EXCEPT ![c] = SubSeq(@, 1, i - 1) \o SubSeq(@, i + 1, Len(@))]
              /\ stream' = IF Answered(cmd)
                           THEN [stream EXCEPT ![c] = Append(@, Resp(cmd.id, applied))]
                           ELSE stream
    /\ UNCHANGED <<sideVars, clientVars, connections, in_use, creating, poolClosed, created, connState,
                   issued, callers>>

\* the node processes the next request of a connection, in the order the
\* requests were written on it; connections are served in any order
Node_process(c) ==
    /\ reqs[c] # <<>>
    /\ LET cmd == Head(reqs[c])
           applied == IF cmd.kind = "set" THEN store \cup {cmd.id} ELSE store
       IN /\ store' = applied
          /\ reqs' = [reqs EXCEPT ![c] = Tail(@)]
          /\ stream' = IF Answered(cmd)
                       THEN [stream EXCEPT ![c] = Append(@, Resp(cmd.id, applied))]
                       ELSE stream
    /\ UNCHANGED <<sideVars, clientVars, connections, in_use, creating, poolClosed, created, connState,
                   issued, callers>>

\* the command reads the next response of its connection and returns it;
\* the lease ends and the connection goes back to the pool
Connection_reply(k) ==
    /\ callers[k].pc = "inflight"
    /\ connState[callers[k].conn] = "Open"
    /\ stream[callers[k].conn] # <<>>
    /\ LET c == callers[k].conn
           r == Head(stream[c])
           after == callers[k].follows # 0 /\ callers[k].kind = "get"
       IN /\ stream' = [stream EXCEPT ![c] = Tail(@)]
          /\ callers' = [callers EXCEPT ![k] =
                 Ended(k, [kind |-> "response", cmd |-> callers[k].cmd, got |-> r.id,
                           conn |-> c, afterNoreply |-> after,
                           sameConn |-> after /\ c = callers[k].followsConn,
                           sole |-> after /\ callers[k].sole,
                           observed |-> after /\ callers[k].follows \in r.seen])]
          /\ ConnectionPool_release(c, FALSE)
    /\ UNCHANGED <<sideVars, clientVars, creating, poolClosed, created, reqs, store, issued>>

\* the task is cancelled, its deadline fires or its connection fails while
\* it holds the lease: the block is left with an exception
Connection_abort(k) ==
    /\ callers[k].pc \in {"leased", "inflight"}
    /\ callers' = [callers EXCEPT ![k] =
           Ended(k, [NoResult EXCEPT !.kind = "aborted", !.cmd = callers[k].cmd,
                                     !.conn = callers[k].conn])]
    /\ ConnectionPool_release(callers[k].conn, TRUE)
    /\ UNCHANGED <<sideVars, clientVars, creating, poolClosed, created, reqs, stream, store, issued>>

\* a task that waits for a connection is cancelled or times out
ConnectionPool_waiter_cancelled(k) ==
    /\ callers[k].pc = "waiting"
    /\ callers' = [callers EXCEPT ![k] = Ended(k, [NoResult EXCEPT !.kind = "cancelled"])]
    /\ UNCHANGED <<sideVars, clientVars, connections, in_use, creating, poolClosed, created, connState,
                   reqs, stream, store, issued>>

\* the pool keeps min_connections warm
ConnectionPool_warm ==
    /\ ~poolClosed
    /\ Cardinality(connections) + creating < MinConnections
    /\ created + creating < MaxCreated
    /\ creating' = creating + 1
    /\ UNCHANGED <<sideVars, clientVars, connections, in_use, poolClosed, created, connState, reqs,
                   stream, store, issued, callers>>

\* the purge task closes an idle connection that was unused for too long,
\* keeping min_connections
ConnectionPool_purge ==
    /\ ~poolClosed
    /\ Cardinality(connections) > MinConnections
    /\ \E c \in Idle :
           /\ connState' = [connState EXCEPT ![c] = "Closed"]
           /\ connections' = connections \ {c}
    /\ UNCHANGED <<sideVars, clientVars, in_use, creating, poolClosed, created, reqs, stream, store,
                   issued, callers>>

\* ConnectionPool.close: the creation tasks are cancelled and every
\* connection is closed, leased or not
ConnectionPool_close ==
    /\ ~poolClosed
    /\ poolClosed' = TRUE
    /\ creating' = 0
    /\ connState' = [c \in ConnIds |-> IF connState[c] = "Open" THEN "Closed" ELSE connState[c]]
    /\ connections' = {}
    /\ in_use' = {}
    /\ UNCHANGED <<sideVars, clientVars, created, reqs, stream, store, issued, callers>>

PoolNext ==
    \/ \E k \in Callers : Node_connection(k)
    \/ \E k \in Callers : ConnectionPool_wakeup(k)
    \/ ConnectionPool_create_done
    \/ \E k \in Callers : Connection_command(k)
    \/ \E c \in ConnIds : Node_process(c)
    \/ \E k \in Callers : Connection_reply(k)
    \/ \E k \in Callers : Connection_abort(k)
    \/ \E k \in Callers : ConnectionPool_waiter_cancelled(k)
    \/ ConnectionPool_warm
    \/ ConnectionPool_purge
    \/ ConnectionPool_close

\* the tasks of one node's pool
PoolSpec == Init /\ [][PoolNext]_vars

\* ------------------------------------------- one key and its cas token
\* One caller runs set, gets, cas and delete on one key of a node that keeps
\* one cas token per key, a command at a time; the node gives every store a
\* token it has not used before.
KvKey == <<97>>
KvValues == { <<118, 49>>, <<118, 50>>, <<118, 51>> }
BogusToken == 0

\* the reply of the node to a storage command of the key
Node_storage_reply(cmd, item, token) ==
    IF cmd = "set" THEN STORED
    ELSE IF item = None THEN NOT_FOUND
    ELSE IF item[1].cas = token THEN STORED
    ELSE EXISTS

\* what the node holds after the command
Node_store(cmd, item, value, token, next) ==
    IF Node_storage_reply(cmd, item, token) = STORED
    THEN Some([value |-> value, cas |-> next])
    ELSE item

\* the tuple the connection hands back for gets of the key
Node_fetch_result(item) ==
    IF item = None
    THEN [keys |-> <<>>, values |-> <<>>, flags |-> <<>>, cas |-> <<>>, client_error |-> None]
    ELSE [keys |-> <<KvKey>>, values |-> <<item[1].value>>, flags |-> <<0>>,
          cas |-> <<item[1].cas>>, client_error |-> None]

Kv_storage(cmd, value, token, out) ==
    /\ kvNext <= MaxStores
    /\ kvItem' = Node_store(cmd, kvItem, value, token, kvNext)
    /\ kvNext' = IF kvItem' # kvItem THEN kvNext + 1 ELSE kvNext
    /\ kvLast' = [op |-> cmd, value |-> Some(value), token |-> Some(token),
                  reused |-> cmd = "cas" /\ kvUsed /\ kvToken = Some(token),
                  delta |-> 0, before |-> kvItem, after |-> kvItem', outcome |-> out]

\* await client.set(key, value)
Kv_set ==
    \E value \in KvValues :
        /\ Kv_storage("set", value, BogusToken,
                      Client_set_outcome(FALSE, Node_storage_reply("set", kvItem, BogusToken)))
        /\ UNCHANGED <<clientVars, poolVars, extraVars, createVars, kvToken, kvUsed>>

\* item = await client.gets(key): the caller keeps item.cas
Kv_gets ==
    LET out == Client_single_item(KvKey, FALSE, TRUE, Node_fetch_result(kvItem))
    IN /\ kvLast' = [NoCommand EXCEPT !.op = "gets", !.before = kvItem, !.after = kvItem,
                                      !.outcome = out]
       /\ kvToken' = IF out.kind = "return" /\ out.val # None THEN out.val.cas ELSE kvToken
       /\ kvUsed' = IF kvToken' # kvToken THEN FALSE ELSE kvUsed
       /\ UNCHANGED <<clientVars, poolVars, extraVars, createVars, kvItem, kvNext>>

\* await client.cas(key, value, token), with the token of the last gets or
\* with one the node never gave
Kv_cas ==
    \E value \in KvValues, token \in {BogusToken} \cup { kvToken[i] : i \in DOMAIN kvToken } :
        /\ Kv_storage("cas", value, token,
                      Client_cas_outcome(FALSE, Node_storage_reply("cas", kvItem, token)))
        /\ kvUsed' = (kvUsed \/ (kvToken = Some(token) /\ kvLast'.outcome = Return(None)))
        /\ UNCHANGED <<clientVars, poolVars, extraVars, createVars, kvToken>>

\* await client.delete(key)
Kv_delete ==
    /\ kvItem # None
    /\ kvItem' = None
    /\ kvLast' = [NoCommand EXCEPT !.op = "delete", !.before = kvItem,
                                   !.outcome = Client_delete_outcome(FALSE, DELETED)]
    /\ UNCHANGED <<clientVars, poolVars, extraVars, createVars, kvNext, kvToken, kvUsed>>

CasNext == Kv_set \/ Kv_gets \/ Kv_cas \/ Kv_delete

\* one caller and the cas token of one key
CasSpec == Init /\ [][CasNext]_vars

\* ------------------------------------------------- a decimal counter
\* One caller runs set, increment, decrement and delete on one key whose
\* value is a decimal number; the node adds the delta of incr and subtracts
\* the delta of decr down to zero, and answers with the new value in decimal.
CounterValues == { 0, 8, 10 }
CounterDeltas == { 0, 3, 5, 100 }

\* the decimal digits of a natural number, most significant first
RECURSIVE DecimalDigits(_)
DecimalDigits(n) ==
    IF n < 10 THEN <<48 + n>>
    ELSE DecimalDigits(n \div 10) \o <<48 + (n % 10)>>

\* the bytes of a counter
str(n) == DecimalDigits(n)

\* the command increment() and decrement() put on the wire
Client_increment_wire == "incr"
Client_decrement_wire_incr == "incr"
Client_decrement_wire == "decr"

\* the counter after incr or decr of the node
Node_counter(cmd, n, d) ==
    IF cmd = "incr" THEN n + d
    ELSE IF n > d THEN n - d
    ELSE 0

\* the reply of the node to incr or decr of the key
Node_incr_decr_reply(cmd, item, d) ==
    IF item = None THEN NOT_FOUND
    ELSE str(Node_counter(cmd, DecimalValue(item[1].value, 1, 0), d))

\* await client.set(key, str(n).encode())
Kv_set_counter ==
    \E n \in CounterValues :
        /\ Kv_storage("set", str(n), BogusToken,
                      Client_set_outcome(FALSE, Node_storage_reply("set", kvItem, BogusToken)))
        /\ UNCHANGED <<clientVars, poolVars, extraVars, createVars, kvToken, kvUsed>>

\* the command reaches the node, which answers, and the caller converts
Kv_incr_decr(op, cmd, d, out) ==
    /\ kvNext <= MaxStores
    /\ kvItem' = IF kvItem = None THEN None
                 ELSE Some([value |-> Node_incr_decr_reply(cmd, kvItem, d), cas |-> kvNext])
    /\ kvNext' = IF kvItem = None THEN kvNext ELSE kvNext + 1
    /\ kvLast' = [NoCommand EXCEPT !.op = op, !.delta = d, !.before = kvItem,
                                   !.after = kvItem', !.outcome = out]
    /\ UNCHANGED <<clientVars, poolVars, extraVars, createVars, kvToken, kvUsed>>

\* await client.increment(key, d)
Kv_increment ==
    \E d \in CounterDeltas :
        Kv_incr_decr("increment", Client_increment_wire, d,
                     Client_increment_outcome(FALSE,
                         Node_incr_decr_reply(Client_increment_wire, kvItem, d)))

\* await client.decrement(key, d)
Kv_decrement ==
    \E d \in CounterDeltas :
        Kv_incr_decr("decrement", Client_decrement_wire, d,
                     Client_decrement_outcome(FALSE,
                         Node_incr_decr_reply(Client_decrement_wire, kvItem, d)))

CounterNext == Kv_set_counter \/ Kv_increment \/ Kv_decrement \/ Kv_delete

\* one caller and the counter of one key
CounterSpec == Init /\ [][CounterNext]_vars

\* ------------------------------------------------------- create_client
\* a credential is None, the empty string or a text
Credentials == { None, Some(""), Some("secret") }

\* Python's truth value of an Optional[str]
Truthy(x) == x # None /\ x # Some("")

\* a variant that only refuses a username given without a password
create_client_check_username_only(ssl, ssl_module, username, password) ==
    IF ssl /\ ~ssl_module THEN "ssl"
    ELSE IF Truthy(username) /\ ~Truthy(password) THEN "credentials"
    ELSE Proceed

\* the checks of create_client before it constructs the client: the name of
\* the check that raises ValueError, or proceed
create_client_check(ssl, ssl_module, username, password) ==
    IF ssl /\ ~ssl_module THEN "ssl"
    ELSE IF ~((Truthy(username) /\ Truthy(password))
              \/ (~Truthy(username) /\ ~Truthy(password))) THEN "credentials"
    ELSE Proceed

\* _Client.__init__: no node address raises before the cluster is made
Client_init_check(node_addresses) ==
    IF node_addresses = 0 THEN "node_addresses" ELSE Proceed

\* a variant that never waits for the first discovery
create_client_barrier_skipped(autodiscovery) == FALSE

\* create_client awaits the first discovery when autodiscovery is asked
create_client_barrier(autodiscovery) == autodiscovery

\* client = await create_client(node_addresses, ...)
create_client ==
    /\ crPc = "idle"
    /\ \E ssl \in BOOLEAN, ssl_module \in BOOLEAN, username \in Credentials,
          password \in Credentials, node_addresses \in 0..1, autodiscovery \in BOOLEAN :
          LET pre == create_client_check(ssl, ssl_module, username, password)
              init == Client_init_check(node_addresses)
          IN /\ crArgs' = [ssl |-> ssl, ssl_module |-> ssl_module, username |-> username,
                           password |-> password, node_addresses |-> node_addresses,
                           autodiscovery |-> autodiscovery]
             /\ IF pre # Proceed
                THEN /\ crOutcome' = Raise(InvalidArgument)
                     /\ crStep' = pre
                     /\ crPc' = "done"
                     /\ UNCHANGED <<crBuilt, crFuture>>
                ELSE IF init # Proceed
                THEN /\ crOutcome' = Raise(InvalidArgument)
                     /\ crStep' = init
                     /\ crPc' = "done"
                     /\ UNCHANGED <<crBuilt, crFuture>>
                ELSE /\ crBuilt' = {"cluster", "client"}
                     /\ crFuture' = IF autodiscovery THEN "pending" ELSE "none"
                     /\ IF create_client_barrier(autodiscovery)
                        THEN crPc' = "waiting" /\ UNCHANGED <<crOutcome, crStep>>
                        ELSE /\ crPc' = "done"
                             /\ crOutcome' = Return(Some("client"))
                             /\ crStep' = "return"
    /\ UNCHANGED <<clientVars, poolVars, extraVars, kvVars, crAttempts, crClosed>>

\* the cluster runs a discovery (config get cluster); the first one that
\* succeeds resolves the future create_client waits on
Cluster_autodiscovery ==
    /\ "cluster" \in crBuilt
    /\ crArgs.autodiscovery
    /\ crAttempts < MaxDiscoveries
    /\ crAttempts' = crAttempts + 1
    /\ \E ok \in BOOLEAN :
           crFuture' = IF ok /\ crFuture = "pending" THEN "done" ELSE crFuture
    /\ UNCHANGED <<clientVars, poolVars, extraVars, kvVars, crArgs, crPc, crOutcome, crStep, crBuilt, crClosed>>

\* asyncio.wait_for: the future is done, create_client returns the client
create_client_resume ==
    /\ crPc = "waiting"
    /\ crFuture = "done"
    /\ crPc' = "done"
    /\ crOutcome' = Return(Some("client"))
    /\ crStep' = "return"
    /\ UNCHANGED <<clientVars, poolVars, extraVars, kvVars, crArgs, crBuilt, crFuture, crAttempts, crClosed>>

\* asyncio.wait_for: the startup timeout passes with the future still
\* pending; the future is cancelled and the timeout error raised
create_client_timeout ==
    /\ crPc = "waiting"
    /\ crFuture = "pending"
    /\ crFuture' = "cancelled"
    /\ crPc' = "done"
    /\ crOutcome' = Raise(TimeoutError)
    /\ crStep' = "wait_for"
    /\ UNCHANGED <<clientVars, poolVars, extraVars, kvVars, crArgs, crBuilt, crAttempts, crClosed>>

CreateNext ==
    \/ create_client
    \/ Cluster_autodiscovery
    \/ create_client_resume
    \/ create_client_timeout

\* one call of create_client
CreateSpec == Init /\ [][CreateNext]_vars

\* ------------------------------------------------------- AutoBatching
\* The autobatchers of a client (one per return_flags and return_cas) and
\* the keys that route to one node. A get enters with execute; the flush scheduled by the
\* first get of a batch runs when the scheduler turn completes; the node
\* answers a flushed batch, or its connection fails.
MaxWaiters == 4
MaxTurns == 2
autobatching_max_keys == 2
BatchKeys == { <<97>>, <<98>>, <<99>> }
InstanceKeys == { <<97>> }

\* an AutoBatching instance is known by what it was constructed with
Instance(return_flags, return_cas) ==
    [return_flags |-> return_flags, return_cas |-> return_cas]

\* a variant of gets that uses the instances of get
Client_gets_instance_nocas(return_flags) ==
    IF ~return_flags THEN Instance(FALSE, FALSE) ELSE Instance(TRUE, FALSE)

\* get: self._autobatching_noflags_nocas or self._autobatching_flags_nocas
Client_get_instance(return_flags) ==
    IF ~return_flags THEN Instance(FALSE, FALSE) ELSE Instance(TRUE, FALSE)

\* gets: self._autobatching_noflags_cas or self._autobatching_flags_cas
Client_gets_instance(return_flags) ==
    IF ~return_flags THEN Instance(FALSE, TRUE) ELSE Instance(TRUE, TRUE)

\* the Waiter of a call: op and return_flags are what the caller asked for,
\* inst the instance whose execute() registered it
Waiter(op, return_flags, inst, key, batch, turn) ==
    [op |-> op, return_flags |-> return_flags, inst |-> inst, key |-> key,
     batch |-> batch, turn |-> turn, result |-> NoOutcome, settled |-> 0]

\* state: "open" (accepts keys), "sent" (flushed, one request on the wire),
\* "done" (answered), "failed" (connection error)
PendingBatch(inst, turn) ==
    [inst |-> inst, keys |-> <<>>, scheduled |-> FALSE, state |-> "open", turn |-> turn,
     found |-> {}]

BatchIds == 1..Len(abBatches)
WaiterIds == 1..Len(abWaiters)
BatchKeySet(b) == { abBatches[b].keys[i] : i \in 1..Len(abBatches[b].keys) }

\* keys is an ordered set: a key that is already in the batch is not added
Batch_append(keys, key) ==
    IF \E i \in 1..Len(keys) : keys[i] = key THEN keys ELSE Append(keys, key)

\* a variant for which no batch is ever full
Batch_full_never(keys) == FALSE

\* |keys| >= max_keys: the batch is flushed at once
Batch_full(keys) == Len(keys) >= autobatching_max_keys

\* what a Waiter of an answered batch gets: the Item of its key, or None
Batch_item(inst, key, found) ==
    IF key \in found
    THEN Return(Some(Item(ValueOf(key),
                          IF inst.return_flags THEN Some(FlagsOf(key)) ELSE None,
                          IF inst.return_cas THEN Some(CasOf(key)) ELSE None)))
    ELSE Return(None)

Batch_resolve(waiters, b, found) ==
    [w \in 1..Len(waiters) |->
        IF waiters[w].batch = b
        THEN [waiters[w] EXCEPT !.result = Batch_item(abBatches[b].inst, waiters[w].key,
                                                      found),
                                !.settled = @ + 1]
        ELSE waiters[w]]

\* a variant that rejects only the first Waiter of the batch
Batch_reject_first_only(waiters, b, err) ==
    [w \in 1..Len(waiters) |->
        IF waiters[w].batch = b /\ (\A v \in 1..(w - 1) : waiters[v].batch # b)
        THEN [waiters[w] EXCEPT !.result = Raise(err), !.settled = @ + 1]
        ELSE waiters[w]]

\* on a connection error every Waiter of the batch is rejected with it
Batch_reject(waiters, b, err) ==
    [w \in 1..Len(waiters) |->
        IF waiters[w].batch = b
        THEN [waiters[w] EXCEPT !.result = Raise(err), !.settled = @ + 1]
        ELSE waiters[w]]

\* get / gets with autobatching on: execute(key) of the instance appends the
\* key to the instance's PendingBatch of the node (created if absent),
\* registers a Waiter, schedules the flush of the batch and flushes at once
\* when the batch is full
AutoBatching_execute_on(op, return_flags, inst, key) ==
    /\ autobatching
    /\ AutoBatching_execute_check(closed, key) = Proceed
    /\ Len(abWaiters) < MaxWaiters
    /\ abTurn <= MaxTurns
    /\ LET open(bs) == { i \in 1..Len(bs) : bs[i].state = "open" /\ bs[i].inst = inst }
           batches == IF open(abBatches) # {}
                      THEN abBatches
                      ELSE Append(abBatches, PendingBatch(inst, abTurn))
           b == CHOOSE i \in open(batches) : TRUE
           keys == Batch_append(batches[b].keys, key)
       IN  /\ abWaiters' = Append(abWaiters, Waiter(op, return_flags, inst, key, b, abTurn))
           /\ abBatches' = [batches EXCEPT ![b] =
                                [@ EXCEPT !.keys = keys,
                                          !.scheduled = TRUE,
                                          !.state = IF Batch_full(keys) THEN "sent"
                                                    ELSE "open"]]
    /\ UNCHANGED <<clientVars, poolVars, kvVars, createVars, healthVars, abTurn>>

\* the calls of one instance: get(key) without flags
AutoBatching_execute ==
    \E key \in BatchKeys :
        AutoBatching_execute_on("get", FALSE, Client_get_instance(FALSE), key)

\* the scheduler turn completes: the scheduled flush runs and sends the
\* batch as one multi-key request
AutoBatching_flush ==
    /\ autobatching
    /\ abTurn <= MaxTurns
    /\ abBatches' = [b \in BatchIds |->
                        IF abBatches[b].state = "open" /\ abBatches[b].scheduled
                        THEN [abBatches[b] EXCEPT !.state = "sent"]
                        ELSE abBatches[b]]
    /\ abTurn' = abTurn + 1
    /\ UNCHANGED <<clientVars, poolVars, kvVars, createVars, healthVars, abWaiters>>

\* the node answers a flushed batch with the keys it holds
AutoBatching_reply ==
    \E b \in BatchIds :
        /\ abBatches[b].state = "sent"
        /\ \E found \in SUBSET BatchKeySet(b) :
            /\ abBatches' = [abBatches EXCEPT ![b] = [@ EXCEPT !.state = "done",
                                                               !.found = found]]
            /\ abWaiters' = Batch_resolve(abWaiters, b, found)
        /\ UNCHANGED <<clientVars, poolVars, kvVars, createVars, healthVars, abTurn>>

\* the connection of a flushed batch fails
AutoBatching_error ==
    \E b \in BatchIds :
        /\ abBatches[b].state = "sent"
        /\ abBatches' = [abBatches EXCEPT ![b] = [@ EXCEPT !.state = "failed"]]
        /\ abWaiters' = Batch_reject(abWaiters, b, ConnectionFailure)
        /\ UNCHANGED <<clientVars, poolVars, kvVars, createVars, healthVars, abTurn>>

BatchNext ==
    \/ AutoBatching_execute
    \/ AutoBatching_flush
    \/ AutoBatching_reply
    \/ AutoBatching_error

\* the autobatcher of one node
BatchSpec == Init /\ [][BatchNext]_vars

\* await client.get(key, return_flags) with autobatching on
Client_get_batched ==
    \E key \in InstanceKeys, return_flags \in BOOLEAN :
        AutoBatching_execute_on("get", return_flags, Client_get_instance(return_flags), key)

\* await client.gets(key, return_flags) with autobatching on
Client_gets_batched ==
    \E key \in InstanceKeys, return_flags \in BOOLEAN :
        AutoBatching_execute_on("gets", return_flags, Client_gets_instance(return_flags), key)

InstanceNext ==
    \/ Client_get_batched
    \/ Client_gets_batched
    \/ AutoBatching_flush
    \/ AutoBatching_reply
    \/ AutoBatching_error

\* get and gets of one client on the four autobatchers of one node
InstanceSpec == Init /\ [][InstanceNext]_vars

\* the scheduled flush runs, and a flushed batch is answered or fails
BatchLiveSpec ==
    /\ BatchSpec
    /\ WF_vars(AutoBatching_flush)
    /\ WF_vars(AutoBatching_reply \/ AutoBatching_error)

\* ------------------------------------------------------- node health
\* The cluster's nodes, the health mark of each node's pool, the ring and
\* the ClusterEvents calls. A pool opens connections (an attempt succeeds or
\* fails) and loses them; a key is routed with pick_node.
MaxNodeConnections == 2
MaxEvents == 3
on_node_healthy == "on_node_healthy"
on_node_unhealthy == "on_node_unhealthy"
RoutedKeys == { <<97>>, <<98>> }

HealthyNodes(nodes) == { n \in Nodes : nodes[n].healthy }

\* a variant of the ring that keeps every node
Cluster_build_ring_all(nodes, purge) == Nodes

\* unhealthy nodes are excluded from the ring iff purge_unhealthy_nodes
Cluster_build_ring(nodes, purge) ==
    IF purge THEN HealthyNodes(nodes) ELSE Nodes

\* a variant that notifies only a cluster that purges
Cluster_emits_when_purging(purge) == purge

\* the events are fired whatever purge_unhealthy_nodes is
Cluster_emits(purge) == TRUE

\* the node of the ring that follows the key's point, wrapping around; 0 when
\* the ring is empty
Ring_pick(key, ring) ==
    IF ring = {} THEN 0
    ELSE LET at == pick_node(key)
             after == { n \in ring : n >= at }
             from == IF after = {} THEN ring ELSE after
         IN CHOOSE n \in from : \A m \in from : n <= m

HealthEvent(n, event, node, attempt, was) ==
    [node |-> n, event |-> event, conns |-> node.conns, attempt |-> attempt, was |-> was]

\* the pool's health mark changed: the ring is rebuilt and the event fired
Cluster_health_changed(nodes, e) ==
    /\ Len(hEvents) < MaxEvents
    /\ hNodes' = nodes
    /\ hRing' = Cluster_build_ring(nodes, hPurge)
    /\ hEvents' = IF Cluster_emits(hPurge) THEN Append(hEvents, e) ELSE hEvents

\* create_client(..., purge_unhealthy_nodes) constructs the cluster
Cluster_init ==
    \E purge \in BOOLEAN :
        /\ hPc = "new"
        /\ hPc' = "running"
        /\ hPurge' = purge
        /\ hRing' = Cluster_build_ring(hNodes, purge)
        /\ UNCHANGED <<clientVars, poolVars, kvVars, createVars, batchVars,
                       hNodes, hEvents, hPicked>>

\* a creation attempt of the node's pool succeeds: a pool marked unhealthy
\* becomes healthy
ConnectionPool_create_succeeded(n) ==
    /\ hPc = "running"
    /\ hNodes[n].conns < MaxNodeConnections
    /\ LET was == hNodes[n].healthy
           node == [conns |-> hNodes[n].conns + 1, healthy |-> TRUE, failed |-> FALSE]
           nodes == [hNodes EXCEPT ![n] = node]
       IN  IF ~was
           THEN Cluster_health_changed(nodes, HealthEvent(n, on_node_healthy, node, "ok", was))
           ELSE hNodes' = nodes /\ UNCHANGED <<hRing, hEvents>>
    /\ UNCHANGED <<clientVars, poolVars, kvVars, createVars, batchVars, hPc, hPurge, hPicked>>

\* a creation attempt fails: a healthy pool with no connection becomes
\* unhealthy
ConnectionPool_create_failed(n) ==
    /\ hPc = "running"
    /\ LET was == hNodes[n].healthy
           turns == was /\ hNodes[n].conns = 0
           node == [hNodes[n] EXCEPT !.failed = TRUE,
                                     !.healthy = IF turns THEN FALSE ELSE @]
           nodes == [hNodes EXCEPT ![n] = node]
       IN  IF turns
           THEN Cluster_health_changed(nodes,
                    HealthEvent(n, on_node_unhealthy, node, "failed", was))
           ELSE hNodes' = nodes /\ UNCHANGED <<hRing, hEvents>>
    /\ UNCHANGED <<clientVars, poolVars, kvVars, createVars, batchVars, hPc, hPurge, hPicked>>

\* a connection of the node is closed (broken, purged as idle)
ConnectionPool_connection_closed(n) ==
    /\ hPc = "running"
    /\ hNodes[n].conns > 0
    /\ hNodes' = [hNodes EXCEPT ![n].conns = @ - 1]
    /\ UNCHANGED <<clientVars, poolVars, kvVars, createVars, batchVars,
                   hPc, hPurge, hRing, hEvents, hPicked>>

\* a key-routed command picks its node
Cluster_pick_node ==
    \E key \in RoutedKeys :
        /\ hPc = "running"
        /\ LET n == Ring_pick(key, hRing)
           IN hPicked' = [key |-> key, node |-> n,
                          healthy |-> n \in HealthyNodes(hNodes)]
        /\ UNCHANGED <<clientVars, poolVars, kvVars, createVars, batchVars,
                       hPc, hPurge, hNodes, hRing, hEvents>>

ClusterNext ==
    \/ Cluster_init
    \/ \E n \in Nodes : ConnectionPool_create_succeeded(n)
    \/ \E n \in Nodes : ConnectionPool_create_failed(n)
    \/ \E n \in Nodes : ConnectionPool_connection_closed(n)
    \/ Cluster_pick_node

\* the health of the nodes of one cluster
ClusterSpec == Init /\ [][ClusterNext]_vars

\* ------------------------------------------------------------ properties
\* the nodes a fan-out call started a sub-request on
Spawned == { n \in Nodes : tasks[n].st # "none" }

\* the keys the finished sub-requests found
FoundKeys ==
    UNION { { tasks[n].val.keys[i] : i \in 1..Len(tasks[n].val.keys) } :
            n \in { m \in Spawned : tasks[m].st = "ok" } }

\* C1: a command, or Pipeline.execute, called on a closed client raises the
\* client-closed error at once, whatever its arguments and with or without
\* autobatching, and neither leases a connection nor writes a request
C1_ClosedClientFailsEveryCall ==
    (cur.op # "none" /\ cur.closedAtCall) =>
        /\ outcome = Raise(ClientClosed)
        /\ parent.pc = "done"
        /\ wire = <<>>
        /\ leases = {}
        /\ acquired = {}
        /\ Spawned = {}

\* execute() of a pipeline that holds commands, called after close()
C1_ClosedExecuteSeen ==
    /\ cur.op = "execute"
    /\ cur.closedAtCall
    /\ stack # <<>>
    /\ outcome = Raise(ClientClosed)

\* C2: a fan-out call returns a map only when every sub-request ended with
\* a result and none reported a client error, and the map then holds the keys
\* found by all of them; a call whose deadline fired raises
C2_NoPartialResult ==
    (cur.op \in ManyOps /\ parent.pc = "done" /\ Spawned # {}) =>
        /\ outcome.kind \in {"return", "raise"}
        /\ outcome.kind = "return" =>
              /\ \A n \in Spawned : tasks[n].st = "ok" /\ tasks[n].val.client_error = None
              /\ DOMAIN outcome.val = FoundKeys
        /\ timedOut => outcome.kind = "raise"

\* a fan-out call over two nodes that returned the items of both
C2_TwoNodeMapSeen ==
    /\ cur.op \in ManyOps
    /\ parent.pc = "done"
    /\ outcome.kind = "return"
    /\ Cardinality(Spawned) = 2
    /\ Cardinality(DOMAIN outcome.val) = 2

\* the handles the loop still has to run
Scheduled == { ready[i] : i \in 1..Len(ready) } \cup { sched[i] : i \in 1..Len(sched) }

\* the error of a failed sub-request has reached the caller of a fan-out call
SubRequestErrorRaised ==
    /\ cur.op \in ManyOps
    /\ parent.pc = "done"
    /\ outcome = Raise(ConnectionFailure)

\* C3, as claimed: when the error of a failed sub-request reaches the caller
\* every sibling sub-request has ended and no connection is leased any more
C3_SiblingsEndedAtRaise ==
    SubRequestErrorRaised =>
        /\ \A n \in Spawned : tasks[n].st \in Done
        /\ leases = {}

\* C3, amended: when the error of a failed sub-request reaches the caller,
\* cancellation has been requested on every sibling that has not ended; such a
\* sibling is scheduled to run with the cancellation pending, may still hold
\* its lease, and once it has run it has ended cancelled without a lease
C3_SiblingsCancelRequested ==
    SubRequestErrorRaised =>
        \A n \in Spawned :
            /\ tasks[n].st \notin Done =>
                  /\ tasks[n].cancelReq
                  /\ tasks[n].fut = "cancelled" \/ tasks[n].mustCancel
                  /\ Wake(n) \in Scheduled
            /\ tasks[n].st \in Done => n \notin leases
            /\ (tasks[n].st \in Done /\ tasks[n].cancelReq) => tasks[n].st = "cancelled"

\* the error has reached the caller while a sibling, its cancellation
\* requested, is still waiting for its reply on a leased connection
C3_LeasedSiblingSeen ==
    /\ SubRequestErrorRaised
    /\ \E n \in Spawned :
           tasks[n].st = "inflight" /\ tasks[n].cancelReq /\ n \in leases

\* C4: when a fan-out call has failed with the timeout error, every
\* sub-request has ended or has had its cancellation requested, and a call
\* whose deadline fired fails with the timeout error
C4_TimeoutCancelsSubRequests ==
    (cur.op \in ManyOps /\ parent.pc = "done") =>
        /\ timedOut => outcome = Raise(TimeoutError)
        /\ outcome = Raise(TimeoutError) =>
              \A n \in Spawned : tasks[n].st \in Done \/ tasks[n].cancelReq

\* the keys of a request or of a serialised command are all valid
KeysValid(keys) == \A i \in 1..Len(keys) : is_key_valid(keys[i])

\* C5: a call given an invalid key raises the invalid-argument error before
\* any I/O, no command with an invalid key is on a pipeline's stack, and no
\* request with an invalid key is written to a node
C5_InvalidKeysRejected ==
    /\ (cur.op # "execute" /\ ~cur.closedAtCall /\ ~KeysValid(cur.keys)) =>
           /\ outcome = Raise(InvalidArgument)
           /\ wire = <<>>
           /\ acquired = {}
           /\ Spawned = {}
    /\ \A i \in 1..Len(stack) : KeysValid(stack[i].keys)
    /\ \A i \in 1..Len(wire) :
           /\ KeysValid(wire[i].keys)
           /\ \A j \in 1..Len(wire[i].commands) : KeysValid(wire[i].commands[j].keys)

\* a storage command sent without noreply has been answered
StorageReplied ==
    /\ cur.op \in StorageOps
    /\ ~cur.noreply
    /\ parent.pc = "done"
    /\ reply # None

\* C6, as claimed: STORED returns, NOT_STORED and EXISTS raise the not-stored
\* error and any other reply raises the storage error, for every command
C6_OutcomeByTokenAlone ==
    StorageReplied =>
        outcome = IF reply[1] = STORED THEN Return(None)
                  ELSE IF reply[1] \in {NOT_STORED, EXISTS}
                  THEN Raise(NotStoredStorageCommandError)
                  ELSE Raise(StorageCommandError)

\* C6, amended: STORED returns; the not-stored error is raised on NOT_STORED
\* by add, replace, append and prepend, on EXISTS by cas, and never by set;
\* every other reply raises the storage error
C6_OutcomeByCommandAndToken ==
    StorageReplied =>
        outcome = IF reply[1] = STORED THEN Return(None)
                  ELSE IF cur.op \in {"add", "replace", "append", "prepend"}
                          /\ reply[1] = NOT_STORED
                  THEN Raise(NotStoredStorageCommandError)
                  ELSE IF cur.op = "cas" /\ reply[1] = EXISTS
                  THEN Raise(NotStoredStorageCommandError)
                  ELSE Raise(StorageCommandError)

\* cas answered EXISTS has raised the not-stored error
C6_CasExistsSeen ==
    /\ StorageReplied
    /\ cur.op = "cas"
    /\ reply = Some(EXISTS)
    /\ outcome = Raise(NotStoredStorageCommandError)

\* C7: set, add, replace and cas given flags of 2^16 or more raise the
\* invalid-argument error before any I/O, and no such command is on a
\* pipeline's stack
C7_WideFlagsRejected ==
    /\ (cur.op \in {"set", "add", "replace", "cas"} /\ ~cur.closedAtCall
           /\ cur.flags >= 2^16) =>
           /\ outcome = Raise(InvalidArgument)
           /\ wire = <<>>
           /\ acquired = {}
    /\ \A i \in 1..Len(stack) :
           stack[i].cmd \in {"set", "add", "replace", "cas"} => stack[i].flags < 2^16

\* the cas token is 2^64 or more
CasTooWide(cas) == cas = MAX_ALLOWED_CAS_VALUE \/ CasGT(cas, MAX_ALLOWED_CAS_VALUE)

\* C8: cas given a token of 2^64 or more raises the invalid-argument error
\* before any I/O, and no such command is on a pipeline's stack
C8_WideCasRejected ==
    /\ (cur.op = "cas" /\ ~cur.closedAtCall /\ CasTooWide(cur.cas)) =>
           /\ outcome = Raise(InvalidArgument)
           /\ wire = <<>>
           /\ acquired = {}
    /\ \A i \in 1..Len(stack) : stack[i].cmd = "cas" => ~CasTooWide(stack[i].cas)

\* C9: the list execute() returns holds one record for each command that
\* was pushed
C9_OneRecordPerCommand ==
    (cur.op = "execute" /\ parent.pc = "done" /\ outcome.kind = "return") =>
        Len(outcome.val) = Len(wire[Len(wire)].commands)

\* C10: however often close() is called, and also while the first call is
\* still closing the pools, the cluster is closed once and `closed` reads
\* True from the first call on
C10_CloseIdempotent ==
    /\ clusterCloseCalls <= 1
    /\ closeCalls >= 1 => (closed /\ clusterCloseCalls = 1)
    /\ closeCalls = 0 => (~closed /\ clusterCloseCalls = 0 /\ cascade = "none")
    /\ cascade # "none" => closed

\* a second close() entered while the first is still closing the pools
C10_SecondCloseSeen ==
    /\ closeCalls = 2
    /\ cascade = "running"
    /\ closed

\* the commands that take noreply
NoreplyOps ==
    StorageOps \cup {"increment", "decrement", "touch", "delete", "flush_all",
                     "cache_memlimit", "verbosity"}

\* the errors a reply of the node can cause
CommandErrors ==
    {NotStoredStorageCommandError, StorageCommandError, NotFoundCommandError,
     CommandError}

\* a command called with noreply has written its request and ended
NoreplySent ==
    /\ cur.op \in NoreplyOps
    /\ cur.noreply
    /\ parent.pc = "done"
    /\ wire # <<>>

\* C11: a command called with noreply that has written its request returns
\* None, and would return None for any value the connection could hand
\* back; a noreply call never ends with an error caused by a reply
C11_NoreplyNeverCommandError ==
    /\ (cur.op \in NoreplyOps /\ cur.noreply /\ outcome.kind = "raise") =>
           outcome.err \notin CommandErrors
    /\ NoreplySent =>
           /\ outcome = Return(None)
           /\ \A r \in LineReplies \cup {None} : Outcome(cur, r) = Return(None)

\* add called with noreply has written its request and returned None
C11_NoreplyAddSeen ==
    /\ NoreplySent
    /\ cur.op = "add"
    /\ outcome = Return(None)

\* increment or decrement sent without noreply has been answered
CounterReplied ==
    /\ cur.op \in {"increment", "decrement"}
    /\ ~cur.noreply
    /\ parent.pc = "done"
    /\ reply # None

\* C12: increment and decrement answered with a decimal line return its
\* integer value, and answered NOT_FOUND raise the not-found error
C12_CounterValueOrNotFound ==
    CounterReplied =>
        /\ IsDecimal(reply[1]) => outcome = Return(DecimalValue(reply[1], 1, 0))
        /\ reply[1] = NOT_FOUND => outcome = Raise(NotFoundCommandError)

\* increment answered b"13" has returned 13
C12_CounterValueSeen ==
    /\ CounterReplied
    /\ cur.op = "increment"
    /\ reply = Some(NUMBER_LINE)
    /\ outcome = Return(13)

\* C13: increment and decrement answered with ERROR, a CLIENT_ERROR line
\* or a SERVER_ERROR line raise the generic command error
C13_CounterOtherReplyCommandError ==
    (CounterReplied /\ reply[1] \in {ERROR_LINE, CLIENT_ERROR_LINE, SERVER_ERROR_LINE}) =>
        outcome = Raise(CommandError)

\* touch or delete sent without noreply has been answered
TouchDeleteReplied ==
    /\ cur.op \in {"touch", "delete"}
    /\ ~cur.noreply
    /\ parent.pc = "done"
    /\ reply # None

\* C14: touch returns exactly when answered TOUCHED and delete exactly when
\* answered DELETED; answered NOT_FOUND they raise the not-found error and
\* answered anything else the generic command error
C14_TouchDeleteOutcome ==
    TouchDeleteReplied =>
        outcome = IF reply[1] = (IF cur.op = "touch" THEN TOUCHED ELSE DELETED)
                  THEN Return(None)
                  ELSE IF reply[1] = NOT_FOUND THEN Raise(NotFoundCommandError)
                  ELSE Raise(CommandError)

\* delete answered TOUCHED has raised the generic command error
C14_DeleteWrongTokenSeen ==
    /\ TouchDeleteReplied
    /\ cur.op = "delete"
    /\ reply = Some(TOUCHED)
    /\ outcome = Raise(CommandError)

\* the items a finished retrieval of the client returned
ReturnedItems ==
    IF parent.pc # "done" \/ outcome.kind # "return" THEN {}
    ELSE IF cur.op \in SingleOps
    THEN (IF outcome.val = None THEN {} ELSE {outcome.val})
    ELSE IF cur.op \in ManyOps
    THEN { outcome.val[k] : k \in DOMAIN outcome.val }
    ELSE {}

\* the items in the list a finished execute() returned
ExecuteItems ==
    IF cur.op = "execute" /\ parent.pc = "done" /\ outcome.kind = "return"
    THEN { outcome.val[i].item[1] :
           i \in { j \in 1..Len(outcome.val) : outcome.val[j].type = "item" } }
    ELSE {}

\* the commands the last request written carried
SentCommands ==
    IF wire = <<>> THEN {}
    ELSE { wire[Len(wire)].commands[i].cmd : i \in 1..Len(wire[Len(wire)].commands) }

\* an item of a client retrieval has flags exactly when return_flags was
\* given and cas exactly when the command was one of the gets / gats family
ClientItemsAsAsked ==
    \A it \in ReturnedItems :
        /\ (it.flags # None) = cur.return_flags
        /\ (it.cas # None) = (cur.op \in {"gets", "gats", "gets_many", "gats_many"})

\* C15, as claimed: the items of the client's retrievals are as asked, and
\* the items of execute() carry no flags, the builders taking no
\* return_flags, and a cas only for gets and gats
C15_ItemFieldsAsAsked ==
    /\ ClientItemsAsAsked
    /\ \A it \in ExecuteItems :
           /\ it.flags = None
           /\ it.cas # None => SentCommands \cap {"gets", "gats"} # {}
           /\ it.cas = None => SentCommands \cap {"get", "gat"} # {}

\* C15, amended: the items of the client's retrievals are as asked; every
\* VALUE record of the reply to execute() becomes an item that carries
\* flags, and a cas exactly when the record carries one
C15_ItemFieldsClientAsAsked ==
    /\ ClientItemsAsAsked
    /\ (cur.op = "execute" /\ parent.pc = "done" /\ outcome.kind = "return") =>
           \A i \in 1..Len(reply[1]) :
               reply[1][i].group = "value" =>
                   /\ outcome.val[i].type = "item"
                   /\ outcome.val[i].item[1].flags # None
                   /\ (outcome.val[i].item[1].cas # None) = (reply[1][i].cas # None)

\* execute() of a pipeline holding a get has returned an item with flags
\* and without cas
C15_PipelineItemSeen ==
    /\ "get" \in SentCommands
    /\ \E it \in ExecuteItems : it.flags # None /\ it.cas = None

\* the commands that have returned with a response
Responded == { k \in Callers : callers[k].result.kind = "response" }

\* C16: a command issued without noreply returns with the response that the
\* node produced for that very command, whatever the other tasks and the
\* earlier noreply commands of its connection were
C16_OwnResponse ==
    \A k \in Responded : callers[k].result.got = callers[k].result.cmd

\* a get has returned on the connection on which the same task had written a
\* noreply command just before
C16_ReplyAfterNoreplySeen ==
    \E k \in Responded : callers[k].result.afterNoreply /\ callers[k].result.sameConn


\* the gets that have returned and were the next command of their task after
\* a noreply mutation of the same key
GetsAfterNoreply == { k \in Responded : callers[k].result.afterNoreply }

\* C17 as stated: after a noreply mutation has returned, the get issued next
\* by the same task is served on the same connection and observes the
\* mutation
C17_NoreplyThenGetSameConnection ==
    \A k \in GetsAfterNoreply : callers[k].result.sameConn /\ callers[k].result.observed

\* C17: the get issued next observes the mutation whenever it is served on
\* the connection of the mutation, and it is served on that connection when
\* it is the only idle connection of the pool as the get takes its lease
C17_NoreplyThenGetOnSameConnectionObserves ==
    \A k \in GetsAfterNoreply :
        /\ callers[k].result.sameConn => callers[k].result.observed
        /\ callers[k].result.sole => callers[k].result.sameConn

\* a get found the connection of its noreply mutation as the only idle one,
\* ran on it and observed the mutation
C17_SameConnectionObservedSeen ==
    \E k \in GetsAfterNoreply :
        callers[k].result.sole /\ callers[k].result.sameConn /\ callers[k].result.observed


\* the commands that ended with a cancellation, a timeout or a broken
\* connection while they held a lease
Aborted == { k \in Callers : callers[k].result.kind = "aborted" }

\* the step gives task k a lease
Leases(k) == callers'[k].pc = "leased" /\ callers[k].pc # "leased"

\* C18: the connection of a call that was cancelled or timed out is Closed
\* and out of the pool; a connection is Open and has no unread response when
\* it is leased, and a response is only ever read from an Open connection
C18_AbortedConnectionNeverReused ==
    /\ [](\A k \in Aborted : /\ connState[callers[k].result.conn] = "Closed"
                             /\ callers[k].result.conn \notin connections)
    /\ [][\A k \in Callers :
            /\ Leases(k) => /\ connState[callers'[k].conn] = "Open"
                            /\ stream[callers'[k].conn] = <<>>
            /\ (callers[k].pc = "inflight" /\ callers'[k].result.kind = "response")
                   => connState[callers[k].conn] = "Open"]_vars

\* a call was aborted with its request in flight, the node's response lies
\* unread on the Closed connection, and another task holds a lease
C18_UnreadResponseOnClosedSeen ==
    \E k \in Aborted :
        /\ callers[k].result.cmd # 0
        /\ stream[callers[k].result.conn] # <<>>
        /\ \E j \in Callers \ {k} : callers[j].pc \in {"leased", "inflight"}


\* the tasks that hold a lease, and the requests of connection c that still
\* await their response or whose response is unread
Holders == { k \in Callers : callers[k].pc \in {"leased", "inflight"} }
InFlight(c) ==
    Cardinality({ i \in 1..Len(reqs[c]) : ~reqs[c][i].noreply }) + Len(stream[c])

\* C19: a connection is leased to at most one task at a time and carries at
\* most one request in flight
C19_ExclusiveLease ==
    /\ \A j, k \in Holders : callers[j].conn = callers[k].conn => j = k
    /\ \A c \in ConnIds : InFlight(c) <= 1
    /\ \A c \in in_use : Cardinality({ k \in Holders : callers[k].conn = c }) = 1

\* two tasks have a request in flight at the same time, each on its own
\* connection
C19_TwoInFlightSeen ==
    \E j, k \in Callers :
        /\ j # k
        /\ callers[j].pc = "inflight" /\ callers[k].pc = "inflight"
        /\ InFlight(callers[j].conn) = 1 /\ InFlight(callers[k].conn) = 1


\* C20: the pool never holds more than max_connections connections, and
\* never more once the creations that are running have ended
C20_AtMostMaxConnections ==
    /\ Cardinality(connections) <= MaxConnections
    /\ Cardinality(connections) + creating <= MaxConnections
    /\ in_use \subseteq connections

\* the pool is full and every connection is leased, after a connection of
\* the pool has already been closed and replaced
C20_FullPoolSeen ==
    /\ Cardinality(connections) = MaxConnections
    /\ in_use = connections
    /\ created > MaxConnections


\* the caller's command is increment or decrement on a client that was not
\* closed when it was called
CounterCall == cur.op \in {"increment", "decrement"} /\ ~cur.closedAtCall

\* C25: increment and decrement given a negative delta raise the
\* invalid-argument error with no node picked, no lease and no byte written,
\* and no such command is on a pipeline's stack; with a delta of zero or more
\* and a valid key the command goes to its node and the builder queues it
C25_NegativeDeltaRejected ==
    /\ (CounterCall /\ cur.delta < 0) =>
           /\ outcome = Raise(InvalidArgument)
           /\ wire = <<>>
           /\ acquired = {}
    /\ (CounterCall /\ cur.delta >= 0 /\ KeysValid(cur.keys)) =>
           (outcome = Raise(InvalidArgument) => reply # None)
    /\ \A i \in 1..Len(stack) : stack[i].cmd \in {"incr", "decr"} => stack[i].delta >= 0
    /\ \A key \in ValidKeys, value \in {0, 3} :
           Pipeline_incr_decr_command(key, value) = Proceed

\* decrement of a valid key by a negative delta was rejected
C25_NegativeDeltaSeen ==
    /\ CounterCall
    /\ cur.op = "decrement"
    /\ cur.delta < 0
    /\ KeysValid(cur.keys)
    /\ outcome = Raise(InvalidArgument)


\* execute() has sent a stack of single-key retrievals only and the node has
\* answered it
RetrievalsExecuted ==
    /\ cur.op = "execute"
    /\ parent.pc = "done"
    /\ reply # None
    /\ \A i \in 1..Len(wire[Len(wire)].commands) :
           /\ wire[Len(wire)].commands[i].cmd \in {"get", "gets", "gat", "gats"}
           /\ Len(wire[Len(wire)].commands[i].keys) = 1

\* the record of a key that is missing: an item that is None
NoneItem == Response("item", <<>>, None, 0, <<>>)

\* C27: each single-key retrieval of a pipeline contributes one record to
\* the list execute() returns, a None item when the node answered END alone
\* and an Item carrying the stored bytes when it sent the value
C27_OneRecordPerRetrieval ==
    RetrievalsExecuted =>
        /\ outcome.kind = "return"
        /\ Len(outcome.val) = Len(wire[Len(wire)].commands)
        /\ \A i \in 1..Len(outcome.val) :
               IF reply[1][i].group = "end" THEN outcome.val[i] = NoneItem
               ELSE /\ outcome.val[i].type = "item"
                    /\ outcome.val[i].item # None
                    /\ outcome.val[i].item[1].value = reply[1][i].data


\* the keys of a sequence, and a single-key retrieval that the node answered
\* without a client error
KeySet(keys) == { keys[i] : i \in 1..Len(keys) }
SingleAnswered ==
    /\ cur.op \in SingleOps
    /\ parent.pc = "done"
    /\ reply # None
    /\ reply[1].client_error = None
    /\ ~timedOut

\* C28: a single-key retrieval returns None exactly when its key is not in
\* the node's reply and the item of the key otherwise; the map of a
\* multi-key retrieval has as keys the requested keys that the nodes returned
C28_MissingKeysAbsent ==
    /\ SingleAnswered =>
           /\ outcome.kind = "return"
           /\ (outcome.val = None) = (cur.keys[1] \notin KeySet(reply[1].keys))
           /\ outcome.val # None => outcome.val.value = ValueOf(cur.keys[1])
    /\ (cur.op \in ManyOps /\ parent.pc = "done" /\ outcome.kind = "return") =>
           /\ DOMAIN outcome.val = FoundKeys
           /\ DOMAIN outcome.val \subseteq KeySet(cur.keys)
           /\ \A k \in DOMAIN outcome.val : outcome.val[k].value = ValueOf(k)

\* a multi-key retrieval returned a map that lacks one of the keys asked for
\* and holds another
C28_PartlyFoundSeen ==
    /\ cur.op \in ManyOps
    /\ parent.pc = "done"
    /\ outcome.kind = "return"
    /\ DOMAIN outcome.val # {}
    /\ KeySet(cur.keys) \ DOMAIN outcome.val # {}


\* the caller's last command was a cas of the key while the node held it
CasOnStoredKey == kvLast.op = "cas" /\ kvLast.before # None

\* C23: a cas with a token that is not the key's current one raises the
\* not-stored error and leaves the value; a cas with the current token, as
\* gets returned it, returns and stores the new value under a new token; a
\* cas with a token that a cas has already accepted fails as the first
C23_CasTokenOnce ==
    /\ CasOnStoredKey =>
           IF kvLast.token = Some(kvLast.before[1].cas)
           THEN /\ kvLast.outcome = Return(None)
                /\ kvLast.after # None
                /\ Some(kvLast.after[1].value) = kvLast.value
                /\ kvLast.after[1].cas # kvLast.before[1].cas
           ELSE /\ kvLast.outcome = Raise(NotStoredStorageCommandError)
                /\ kvLast.after = kvLast.before
    /\ (CasOnStoredKey /\ kvLast.reused) =>
           /\ kvLast.outcome = Raise(NotStoredStorageCommandError)
           /\ kvLast.after = kvLast.before
    /\ (kvLast.op = "gets" /\ kvLast.before # None) =>
           /\ kvLast.outcome.kind = "return"
           /\ kvLast.outcome.val # None
           /\ kvLast.outcome.val.cas = Some(kvLast.before[1].cas)

\* the token of a gets was accepted by a cas, and the next cas with the same
\* token has failed and left the value of the first
C23_SecondCasRefusedSeen ==
    /\ CasOnStoredKey
    /\ kvLast.reused
    /\ kvLast.outcome = Raise(NotStoredStorageCommandError)
    /\ kvLast.after = kvLast.before
    /\ kvLast.value # Some(kvLast.before[1].value)


\* one of username and password is given without the other
HalfCredentials == Truthy(crArgs.username) # Truthy(crArgs.password)

\* C24: the credentials check of create_client raises the invalid-argument
\* error, with no client and no cluster constructed, exactly when one of
\* username and password is given without the other; otherwise the
\* construction of the client is entered
C24_HalfCredentialsRejected ==
    crPc # "idle" =>
        /\ (crArgs.ssl => crArgs.ssl_module) =>
               (crStep = "credentials") = HalfCredentials
        /\ crStep = "credentials" =>
               /\ crOutcome = Raise(InvalidArgument)
               /\ crBuilt = {}
               /\ crFuture = "none"
        /\ (~HalfCredentials /\ (crArgs.ssl => crArgs.ssl_module)
               /\ crArgs.node_addresses > 0) => crBuilt = {"cluster", "client"}

\* a password was given without a username and the call was refused
C24_PasswordAloneSeen ==
    /\ crPc = "done"
    /\ crArgs.username = None
    /\ crArgs.password = Some("secret")
    /\ crStep = "credentials"
    /\ crOutcome = Raise(InvalidArgument)

\* C26: with autodiscovery a client is returned only once the first
\* discovery has succeeded, and when the startup timeout passes first the
\* call raises the timeout error and returns no client
C26_StartupBarrier ==
    /\ (crArgs.autodiscovery /\ crOutcome.kind = "return") => crFuture = "done"
    /\ (crArgs.autodiscovery /\ crPc = "done" /\ crFuture \in {"pending", "cancelled"}) =>
           crOutcome.kind = "raise"
    /\ crFuture = "cancelled" => crOutcome = Raise(TimeoutError)
    /\ (crPc = "waiting") => crOutcome = NoOutcome

\* a first discovery failed, the second succeeded and the client was returned
C26_ReturnedAfterDiscoverySeen ==
    /\ crArgs.autodiscovery
    /\ crAttempts = 2
    /\ crFuture = "done"
    /\ crOutcome = Return(Some("client"))

\* C21: every get that enters the autobatcher is resolved exactly once: with
\* the Item of its key when the key is in the batch's reply, with None when
\* it is not, with the connection's error when the flush fails; a Waiter is
\* pending only while its batch is awaiting its scheduled flush or its answer,
\* and every Waiter is resolved in the end
C21_WaiterResolvedOnce ==
    /\ [](\A w \in WaiterIds :
            LET x == abWaiters[w]
                b == abBatches[x.batch]
            IN  /\ x.settled <= 1
                /\ x.key \in BatchKeySet(x.batch)
                /\ (b.state = "open") =>
                       (b.scheduled /\ b.turn = abTurn /\ x.settled = 0
                          /\ x.result = NoOutcome)
                /\ (b.state = "sent") => (x.settled = 0 /\ x.result = NoOutcome)
                /\ (b.state = "done") =>
                       (x.settled = 1 /\ x.result = Batch_item(b.inst, x.key, b.found))
                /\ (b.state = "failed") =>
                       (x.settled = 1 /\ x.result = Raise(ConnectionFailure)))
    /\ \A w \in 1..MaxWaiters :
           (Len(abWaiters) >= w) ~> (Len(abWaiters) >= w /\ abWaiters[w].settled = 1)

\* a failed batch with two Waiters next to an answered batch that found one
\* of its two keys
C21_RejectedBatchSeen ==
    \E b, c \in BatchIds :
        /\ abBatches[b].state = "failed"
        /\ Cardinality({ w \in WaiterIds : abWaiters[w].batch = b }) >= 2
        /\ abBatches[c].state = "done"
        /\ \E v, w \in WaiterIds :
            /\ abWaiters[v].batch = c /\ abWaiters[w].batch = c
            /\ abWaiters[v].result = Return(None)
            /\ abWaiters[w].result # Return(None)

TurnCalls(t) == { w \in WaiterIds : abWaiters[w].turn = t }
TurnRequests(t) == { b \in BatchIds : abBatches[b].turn = t }

\* C22: the gets of one scheduler turn that route to one node are sent in at
\* most ceil(N / autobatching_max_keys) requests, and no request carries more
\* than autobatching_max_keys keys
C22_CoalescedRequests ==
    /\ \A b \in BatchIds : Len(abBatches[b].keys) <= autobatching_max_keys
    /\ \A t \in 1..MaxTurns :
           Cardinality(TurnRequests(t)) * autobatching_max_keys
               < Cardinality(TurnCalls(t)) + autobatching_max_keys

\* a turn with more gets than max_keys, sent in two requests, the first full
C22_SplitTurnSeen ==
    \E t \in 1..MaxTurns :
        /\ Cardinality(TurnCalls(t)) > autobatching_max_keys
        /\ Cardinality(TurnRequests(t)) = 2
        /\ \A b \in TurnRequests(t) : abBatches[b].state # "open"
        /\ \E b \in TurnRequests(t) : Len(abBatches[b].keys) = autobatching_max_keys

\* the events of node n, in order
NodeEvents(n) ==
    LET OfNode(e) == e.node = n IN SelectSeq(hEvents, OfNode)

\* C29: on_node_unhealthy is fired only for a pool with no connection whose
\* latest creation attempt failed, on_node_healthy only when a creation
\* succeeds on a node marked unhealthy; the events of a node alternate, and
\* every change of a health mark is fired whether the cluster purges or not
C29_HealthEventsAlternate ==
    /\ \A i \in 1..Len(hEvents) :
        LET e == hEvents[i]
        IN  /\ (e.event = on_node_unhealthy) =>
                   (e.conns = 0 /\ e.attempt = "failed" /\ e.was)
            /\ (e.event = on_node_healthy) => (e.attempt = "ok" /\ ~e.was)
    /\ \A n \in Nodes :
        LET ev == NodeEvents(n)
        IN  /\ \A i \in 1..(Len(ev) - 1) : ev[i].event # ev[i + 1].event
            /\ hNodes[n].healthy =
                   (ev = <<>> \/ ev[Len(ev)].event = on_node_healthy)
            /\ ~hNodes[n].healthy => (hNodes[n].conns = 0 /\ hNodes[n].failed)

\* a cluster that does not purge fired unhealthy, healthy and unhealthy
\* again for one node
C29_AlternationWithoutPurgeSeen ==
    /\ ~hPurge
    /\ \E n \in Nodes :
        /\ Len(NodeEvents(n)) = MaxEvents
        /\ NodeEvents(n)[1].event = on_node_unhealthy
        /\ NodeEvents(n)[2].event = on_node_healthy

\* C30: with purge_unhealthy_nodes a picked node is never one marked
\* unhealthy when it is picked; without it every key is routed as over the
\* whole cluster, to healthy and unhealthy nodes alike
C30_PurgedNodesNotRouted ==
    /\ hRing = (IF hPurge THEN HealthyNodes(hNodes) ELSE Nodes)
    /\ (hPicked.node # 0 /\ hPurge) => hPicked.healthy
    /\ (hPicked # NoPick /\ ~hPurge) => hPicked.node = pick_node(hPicked.key)

\* a purging cluster routed a key away from its node, which is unhealthy
C30_ReroutedSeen ==
    /\ hPurge
    /\ hPicked.node # 0
    /\ hPicked.node # pick_node(hPicked.key)
    /\ ~hNodes[pick_node(hPicked.key)].healthy

\* C40: when create_client fails on the startup barrier, the client it built
\* has been closed before the error reaches the caller
C40_FailedCreateClosesClient ==
    (crPc = "done" /\ crStep = "wait_for") =>
        (crOutcome = Raise(TimeoutError) /\ ("client" \in crBuilt => crClosed))

\* C39: on an open client a multi-key retrieval of no key returns an empty
\* map at once: no node is picked, no sub-request started, no deadline
\* installed, no connection leased and no request written
C39_NoKeysNoWork ==
    (cur.op \in ManyOps /\ cur.keys = <<>> /\ ~cur.closedAtCall) =>
        /\ outcome = Return(<<>>)
        /\ parent = DoneParent
        /\ tasks = NoTasks
        /\ gather = NoGather
        /\ timer = "off"
        /\ ready = <<>> /\ sched = <<>>
        /\ wire = <<>>
        /\ leases = {}
        /\ acquired = {}

\* gats_many of no key has returned on a client with a timeout
C39_EmptyGatsManySeen ==
    /\ cur.op = "gats_many"
    /\ cur.keys = <<>>
    /\ timeout
    /\ ~cur.closedAtCall
    /\ outcome = Return(<<>>)

\* b"STAT pid 7\r\nSTAT a b 1\r\nEND\r\n"
TwoStats ==
    <<83, 84, 65, 84, 32, 112, 105, 100, 32, 55, 13, 10,
      83, 84, 65, 84, 32, 97, 32, 98, 32, 49, 13, 10, 69, 78, 68, 13, 10>>

\* the reply a finished per-node command read
NodeReply == reply[1]

\* C33: version returns the text after "VERSION " of a reply that starts
\* with VERSION and fails with CommandError for any other reply, the empty
\* one included; stats returns the map of the STAT lines of a reply that ends
\* with END and fails with CommandError otherwise; flush_all, cache_memlimit
\* and verbosity without noreply return None for OK and fail with
\* CommandError for any other reply
C33_AdminReplyClassified ==
    /\ (cur.op \in NodeOps /\ parent.pc = "done" /\ reply # None /\ ~cur.noreply) =>
        /\ (cur.op = "version" /\ startswith(NodeReply, VERSION)) =>
               outcome = Return(decode(SubSeq(NodeReply, Len(VERSION) + 2, Len(NodeReply))))
        /\ (cur.op = "version" /\ ~startswith(NodeReply, VERSION)) =>
               outcome = Raise(CommandError)
        /\ (cur.op = "stats" /\ NodeReply = STATS_BLOCK) =>
               outcome = Return(decode(<<97>>) :> decode(<<49>>))
        /\ (cur.op = "stats" /\ NodeReply # STATS_BLOCK) =>
               (~endswith(NodeReply, END) /\ outcome = Raise(CommandError))
        /\ (cur.op \in {"flush_all", "cache_memlimit", "verbosity"} /\ NodeReply = OK) =>
               outcome = Return(None)
        /\ (cur.op \in {"flush_all", "cache_memlimit", "verbosity"} /\ NodeReply # OK) =>
               outcome = Raise(CommandError)
    /\ Client_stats_outcome(TwoStats) =
           Return((decode(<<112, 105, 100>>) :> decode(<<55>>))
                  @@ (decode(<<97, 32, 98>>) :> decode(<<49>>)))
    /\ Client_version_outcome(<<>>) = Raise(CommandError)

\* stats has failed on a reply that is a line, not a block ended by END
C33_StatsErrorSeen ==
    /\ cur.op = "stats"
    /\ parent.pc = "done"
    /\ reply = Some(ERROR_LINE)
    /\ outcome = Raise(CommandError)

\* C38: a client command that has finished, however it ended, holds no
\* connection lease
C38_NoLeaseAfterFinish ==
    (cur.op # "none" /\ parent.pc = "done") => leases = {}

\* what holds of the leases: a finished command that is not a fan-out, and a
\* fan-out that returned its map, hold none
NoLeaseAfterFinishUnlessFanOutRaised ==
    (cur.op # "none" /\ parent.pc = "done"
         /\ (cur.op \notin ManyOps \/ outcome.kind = "return")) => leases = {}

\* the requests of the call that carry key k
RequestsOf(k) ==
    { i \in 1..Len(wire) : \E j \in 1..Len(wire[i].keys) : wire[i].keys[j] = k }

\* C31: a client call writes at most one request per key (one request in all
\* for a single-key or per-node command), each to the node picked for the
\* key; a call that failed on the lease, on the round trip or on its
\* deadline wrote no second request
C31_SentOnceToPickedNode ==
    (cur.op # "none" /\ cur.op # "execute") =>
        /\ cur.op \notin ManyOps => Len(wire) <= 1
        /\ \A i \in 1..Len(wire) :
            /\ wire[i].cmd = cur.op
            /\ cur.op \in NodeOps => wire[i].node = cur.node
            /\ cur.op \notin ManyOps => wire[i].keys = cur.keys
            /\ \A j \in 1..Len(wire[i].keys) :
                /\ wire[i].node = pick_node(wire[i].keys[j])
                /\ \E m \in 1..Len(cur.keys) : cur.keys[m] = wire[i].keys[j]
                /\ RequestsOf(wire[i].keys[j]) = {i}
        /\ \A n \in acquired : \E i \in 1..Len(wire) : wire[i].node = n

\* a set whose connection broke after the request was written has raised
\* the connection's error, with that one request written
C31_FailedOnceSeen ==
    /\ cur.op = "set"
    /\ parent.pc = "done"
    /\ outcome = Raise(ConnectionFailure)
    /\ Len(wire) = 1
    /\ wire[1].node = pick_node(cur.keys[1])


\* C35: on a key that holds the decimal counter n, increment(k, d) returns
\* n + d and decrement(k, d) returns n - d, or 0 when d is larger than n; the
\* value returned is never negative and the bytes the node holds after the
\* call are the decimal form of the value returned
CounterBefore == DecimalValue(kvLast.before[1].value, 1, 0)
C35_CounterArithmetic ==
    (kvLast.op \in {"increment", "decrement"} /\ kvLast.before # None) =>
        /\ kvLast.outcome.kind = "return"
        /\ kvLast.outcome.val >= 0
        /\ kvLast.op = "increment" => kvLast.outcome.val = CounterBefore + kvLast.delta
        /\ kvLast.op = "decrement" =>
               kvLast.outcome.val = (IF CounterBefore - kvLast.delta > 0
                                     THEN CounterBefore - kvLast.delta ELSE 0)
        /\ kvLast.after # None
        /\ IsDecimal(kvLast.after[1].value)
        /\ kvLast.after[1].value = str(kvLast.outcome.val)
        /\ kvItem = kvLast.after

\* a decrement larger than the counter returned zero
C35_ClampedDecrementSeen ==
    /\ kvLast.op = "decrement"
    /\ kvLast.before # None
    /\ CounterBefore > 0
    /\ kvLast.delta > CounterBefore
    /\ kvLast.outcome = Return(0)
    /\ kvItem = Some([value |-> <<48>>, cas |-> kvLast.after[1].cas])


\* C34: with autobatching on, a get(key, return_flags=f) is registered with
\* the instance built with (f, no cas) and a gets(key, return_flags=f) with
\* the one built with (f, cas); the batch of a call is a batch of its
\* instance, so two calls of different instances are never in one request; an
\* item handed to a gets caller has a cas and one handed to a get caller has
\* none
WaiterItem(w) == abWaiters[w].result.val[1]
WaiterGotItem(w) ==
    /\ abWaiters[w].settled > 0
    /\ abWaiters[w].result.kind = "return"
    /\ abWaiters[w].result.val # None
C34_InstanceOfCall ==
    /\ \A w \in WaiterIds :
        /\ abWaiters[w].op = "get" =>
               abWaiters[w].inst = Instance(abWaiters[w].return_flags, FALSE)
        /\ abWaiters[w].op = "gets" =>
               abWaiters[w].inst = Instance(abWaiters[w].return_flags, TRUE)
        /\ abBatches[abWaiters[w].batch].inst = abWaiters[w].inst
        /\ WaiterGotItem(w) =>
               /\ (WaiterItem(w).cas # None) <=> (abWaiters[w].op = "gets")
               /\ (WaiterItem(w).flags # None) <=> abWaiters[w].return_flags
    /\ \A v, w \in WaiterIds :
           (abWaiters[v].op # abWaiters[w].op
               \/ abWaiters[v].return_flags # abWaiters[w].return_flags)
               => abWaiters[v].batch # abWaiters[w].batch

\* a get and a gets of the same key and the same turn went out in two
\* requests, next to two gets that shared one, and only the gets callers got
\* a cas
C34_GetAndGetsApartSeen ==
    \E u, v, w \in WaiterIds :
        /\ abWaiters[u].op = "get" /\ abWaiters[v].op = "gets" /\ abWaiters[w].op = "gets"
        /\ v # w
        /\ abWaiters[u].turn = abWaiters[v].turn
        /\ abWaiters[u].key = abWaiters[v].key
        /\ abWaiters[u].return_flags = abWaiters[v].return_flags
        /\ abWaiters[u].batch # abWaiters[v].batch
        /\ abWaiters[v].batch = abWaiters[w].batch
        /\ WaiterGotItem(u) /\ WaiterGotItem(v) /\ WaiterGotItem(w)
        /\ WaiterItem(u).cas = None
        /\ WaiterItem(v).cas # None


\* C36: a builder method of the pipeline either appends one command at the
\* end of the stack, or raises the invalid-argument error and leaves the
\* stack as it was; the request of execute() carries the stack in the order
\* it was pushed, it is the only request of the call, and it goes to the
\* pipeline's node on the connection the call leased
BuilderStep ==
    /\ block = "open"
    /\ block' \in {"open", InvalidArgument}
    /\ cur' = cur /\ parent' = parent
    /\ <<stack, block>>' # <<stack, block>>
BuilderAppendsOne ==
    BuilderStep =>
        /\ pipe' = pipe
        /\ \/ /\ block' = "open"
              /\ Len(stack') = Len(stack) + 1
              /\ SubSeq(stack', 1, Len(stack)) = stack
           \/ /\ block' = InvalidArgument
              /\ stack' = stack

\* a builder has raised on the second command, which is not in the stack
BuilderRaisedSeen ==
    /\ block = InvalidArgument
    /\ Len(stack) = 1

\* the one request of an execute() call holds the stack of the call, goes to
\* the pipeline's node, and that node is the one leased
ExecuteSendsStackOnce ==
    (cur.op = "execute" /\ wire # <<>>) =>
        /\ Len(wire) = 1
        /\ wire[1].cmd = "execute"
        /\ wire[1].node = pipe
        /\ wire[1].commands = attempts[Len(attempts)].stack
        /\ acquired = {pipe}
        /\ leases \subseteq {pipe}
        /\ parent.pc = "inflight" => (stack = wire[1].commands /\ leases = {pipe})

C36_BuilderAppendsExecuteSends ==
    [][BuilderAppendsOne]_vars /\ []ExecuteSendsStackOnce

\* two builders appended a command each and execute() wrote the two in one
\* request
C36_TwoCommandsInOneRequestSeen ==
    /\ cur.op = "execute"
    /\ parent.pc = "inflight"
    /\ Len(wire) = 1
    /\ Len(wire[1].commands) = 2
    /\ wire[1].commands[1] # wire[1].commands[2]
    /\ wire[1].commands = stack


\* C37: the stack is empty once execute() has returned and once the block is
\* left; while the block is open, an execute() that raised has left the stack
\* as it was at the call; so an execute() that follows one that returned
\* sends nothing of what was executed, and one that follows one that raised
\* is called with, and sends, the same commands
LastAttempt == attempts[Len(attempts)]
ExecuteEnded == cur.op = "execute" /\ parent.pc = "done"
C37_StackAfterExecute ==
    /\ block = "exited" => stack = <<>>
    /\ (ExecuteEnded /\ outcome.kind = "return") => stack = <<>>
    /\ (ExecuteEnded /\ outcome.kind = "raise" /\ block = "open") =>
           stack = LastAttempt.stack
    /\ \A i \in 2..Len(attempts) :
        /\ attempts[i].before.kind \in {"return", "raise"}
        /\ attempts[i].before.kind = "return" => attempts[i].stack = <<>>
        /\ attempts[i].before.kind = "raise" => attempts[i].stack = attempts[i - 1].stack
    /\ (cur.op = "execute" /\ wire # <<>>) => wire[1].commands = LastAttempt.stack

\* execute() timed out with two commands on the stack, was called again, sent
\* the same two commands and returned, and the stack is empty
C37_RetrySentSameCommandsSeen ==
    /\ Len(attempts) = 2
    /\ attempts[2].before = [kind |-> "raise", err |-> TimeoutError]
    /\ Len(attempts[1].stack) = 2
    /\ ExecuteEnded
    /\ outcome.kind = "return"
    /\ wire # <<>>
    /\ wire[1].commands = attempts[1].stack
    /\ stack = <<>>
    /\ block = "open"

\* execute() returned, was called again and sent an empty request
SecondExecuteSentNothingSeen ==
    /\ Len(attempts) = 2
    /\ attempts[2].before.kind = "return"
    /\ attempts[1].stack # <<>>
    /\ wire # <<>>
    /\ wire[1].commands = <<>>


\* C32: with a timeout, a single-key or per-node command that has started
\* ends: it completes, or it fails with TimeoutError, and it fails so only
\* after the deadline has fired and never with the bare cancellation; the
\* deadline is armed from the wait for the connection until the reply is
\* taken.  Without a timeout no deadline exists and no call fails with
\* TimeoutError.
GuardedCall == cur.op \in SingleOps \cup StorageOps \cup NodeOps
                   \cup {"increment", "decrement", "touch", "delete"}
CallRunning == GuardedCall /\ parent.pc \notin {"idle", "done"}
DeadlineGuards ==
    /\ ~timeout => (timer = "off" /\ ~timedOut /\ outcome # Raise(TimeoutError))
    /\ outcome = Raise(TimeoutError) => (timeout /\ timedOut /\ timer = "fired")
    /\ (GuardedCall /\ parent.pc = "done") => outcome # Raise(CancelledError)
    /\ (timeout /\ GuardedCall /\ parent.pc \in {"acquire", "inflight"} /\ ~timedOut) =>
           timer \in {"armed", "queued"}
    /\ (GuardedCall /\ ~cur.batched /\ parent.pc = "done" /\ timedOut) =>
           outcome = Raise(TimeoutError)
C32_DeadlineEndsCall ==
    /\ []DeadlineGuards
    /\ (timeout /\ CallRunning) ~> (parent.pc = "done")
    /\ (timeout /\ CallRunning /\ timedOut /\ ~cur.batched)
           ~> (parent.pc = "done" /\ outcome = Raise(TimeoutError))

\* the deadline fired while the request was on the wire with no reply, and
\* the call failed with TimeoutError
C32_TimedOutInFlightSeen ==
    /\ timeout
    /\ GuardedCall
    /\ parent.pc = "done"
    /\ wire # <<>>
    /\ reply = None
    /\ outcome = Raise(TimeoutError)

\* the deadline fired while the call waited for a connection
TimedOutWaitingForLeaseSeen ==
    /\ timeout
    /\ GuardedCall
    /\ ~cur.batched
    /\ parent.pc = "done"
    /\ wire = <<>>
    /\ acquired = {}
    /\ outcome = Raise(TimeoutError)

====
